---------------------------- MODULE Spec2Model ----------------------------
(***************************************************************************)
(* SolidBlock-RL: the grid environment (class Game), the replay sampler    *)
(* and the training loop of src/SolidBlock/index.js.                       *)
(*                                                                         *)
(* Numbers.  The score and every reward are kept in tenths (0.6 is 6,      *)
(* 40 is 400), which makes the environment's arithmetic exact integers.    *)
(* Positions are records [x, y]; JavaScript's undefined position is the    *)
(* record Undefined, which lies outside every board.                       *)
(***************************************************************************)
EXTENDS Integers, Sequences, FiniteSets, TLC

VARIABLES
  game,      \* the Game instance: one record, one field per field of the class
  thrown,    \* TRUE once a call raised "Unable to find free position on board."
  last,      \* the last call: its name, its argument, step's locals, what it returned
  calls,     \* number of calls made on the instance since construction
  resets,    \* number of those calls that were reset()
  moveHistory,  \* a moveHistory handed to step's pattern checks
  penalties,    \* the pattern penalties step applied for it
  sampleBuffer, \* a replay buffer handed to sampleEnhancedBatch
  sampleSize,   \* the batchSize handed to it
  sampleBatch,  \* what it returned: for each entry, its index in the buffer
  sampled,      \* TRUE once it has returned
  pc,            \* where train() is
  trainingState, \* what loadTrainingState returned
  episode,       \* train's episode counter
  epsilon,       \* the exploration rate, in millionths
  replayBuffer,  \* train's replay buffer, oldest transition first
  step,          \* the step loop's counter
  stopTraining,  \* the stop flag the stdin handler sets
  episodesRun,   \* episodes started by this call of train
  pushes,        \* transitions pushed by this call of train
  broke,         \* TRUE once the step loop was left through "if (done) break"
  episodeLosses, \* the losses of the learning updates, oldest first
  episodeMaxQs,  \* the largest Q value of each greedy choice, oldest first
  baseLearningRate, \* in millionths
  resumeModelPath,  \* TRUE when train was given a path to resume from
  files,         \* the checkpoint files on disk, by location
  pending,       \* the model.save calls in flight, by what started them
  log,           \* what console.error has printed
  run,           \* the processes started so far
  layout,        \* a board and the obstacle list built for it
  snapshot,      \* an object getState returned, in a caller's hands
  learningRate,  \* the learning rate of train's optimizer, in millionths
  currentFeature \* train's currentFeature, the encoding the next transition starts from

gameVars == <<game, thrown, last, calls, resets>>

patternVars == <<moveHistory, penalties>>

sampleVars == <<sampleBuffer, sampleSize, sampleBatch, sampled>>

historyVars == <<episodeLosses, episodeMaxQs, baseLearningRate>>

ioVars == <<resumeModelPath, files, pending, log, run>>

trainVars ==
  <<pc, trainingState, episode, epsilon, replayBuffer, step, stopTraining,
    episodesRun, pushes, broke, historyVars, ioVars>>

layoutVars == <<layout>>

snapVars == <<snapshot>>

optVars == <<learningRate>>

featVars == <<currentFeature>>

auxVars == <<layoutVars, snapVars, optVars, featVars>>

vars == <<gameVars, patternVars, sampleVars, trainVars, auxVars>>

----------------------------------------------------------------------------
(* Bounds of the exploration. *)

\* Calls (reset, step) explored on one Game instance.
MaxCalls == 3

\* Calls made on the instance on the long walks.
MaxWalkCalls == 8

\* Steps of the episode whose transitions are followed with their encodings.
MaxChainSteps == 2

\* Calls explored on an instance whose getState snapshot a caller holds.
MaxSnapCalls == 1

\* Calls explored when setObstaclePattern is among the operations, and the
\* resets and the steps of one episode explored there.
MaxApiCalls == 3
MaxApiResets == 1
MaxApiTicks == 1

\* Moves in a history before step's pattern checks are explored on it, and
\* the moves pushed onto it then.
HistoryFill == 9
MaxPushes == 1

\* Math.random() returns one of 0/RandomGrid .. (RandomGrid-1)/RandomGrid.
RandomGrid == 4

\* Longest buffer handed to sampleEnhancedBatch on its own.
MaxSampleLen == 3

\* Processes followed one after the other on the same working directory,
\* episodes followed in the first of them and in one started after it.
MaxRuns == 2
MaxRunEpisodes == 1
MaxResumedEpisodes == 0

\* Longest replay buffer an end of episode is followed on, on its own.
MaxPurgeLen == 11

\* Longest replay buffer of a training state saved and loaded on its own.
MaxJsonLen == 2

\* Episodes one call of train is followed through.
MaxEpisodes == 2

\* The episode counter up to which the exploration rate is followed on its own.
MaxEpsEpisodes == 3300

\* train's maxSteps (500), REPLAY_BUFFER_SIZE (10000) and BATCH_SIZE (32),
\* scaled down.
maxSteps == 1
REPLAY_BUFFER_SIZE == 2
BATCH_SIZE == 2

\* constants.js is not among the sources.  TICK_SPAWN_INTERVAL is "a fixed
\* number of ticks"; the boards explored are small ones on which the cross
\* still leaves free cells.
TICK_SPAWN_INTERVAL == 2

Boards == { [w |-> 6, h |-> 5] }

\* Largest board an obstacle layout is built for on its own.
MaxWidth == 20
MaxHeight == 15

----------------------------------------------------------------------------
(* Positions and arrays of positions. *)

Pos(x, y) == [x |-> x, y |-> y]

Undefined == Pos(-1, -1)

\* Array.prototype.some(o => o.x === x && o.y === y)
Some(arr, x, y) == \E i \in 1..Len(arr) : arr[i].x = x /\ arr[i].y = y

\* arr.splice(i, 1), i counted from 1
RemoveAt(arr, i) == SubSeq(arr, 1, i - 1) \o SubSeq(arr, i + 1, Len(arr))

Abs(n) == IF n < 0 THEN -n ELSE n

\* `${x},${y}`: the key of a cell in visitedCells and in the constructor's Map.
\* Two cells have the same key exactly when they have the same coordinates.
PosKey(x, y) == <<x, y>>

----------------------------------------------------------------------------
(* Obstacle layouts. *)

CenterX(w) == (w - 1) \div 2

CenterY(h) == (h - 1) \div 2

\* for y in cy-4..cy+4: for x in cx-1..cx+1: push {x, y}
VerticalBar(cx, cy) ==
  [k \in 1..27 |-> Pos(cx - 1 + ((k - 1) % 3), cy - 4 + ((k - 1) \div 3))]

\* Fault: the horizontal bar is one row high.
ThinBar(cx, cy) == [k \in 1..9 |-> Pos(cx - 4 + (k - 1), cy)]

\* for x in cx-4..cx+4: for y in cy-1..cy+1: push {x, y}
HorizontalBar(cx, cy) ==
  [k \in 1..27 |-> Pos(cx - 4 + ((k - 1) \div 3), cy - 1 + ((k - 1) % 3))]

CrossObstacles(w, h) ==
  VerticalBar(CenterX(w), CenterY(h)) \o HorizontalBar(CenterX(w), CenterY(h))

\* Array.from(new Map(obstacles.map(o => [key, o])).values()): one entry per
\* key, in the order the keys first appear.
RECURSIVE DedupFrom(_, _, _)
DedupFrom(arr, i, acc) ==
  IF i > Len(arr) THEN acc
  ELSE IF \E j \in 1..Len(acc) : PosKey(acc[j].x, acc[j].y) = PosKey(arr[i].x, arr[i].y)
       THEN DedupFrom(arr, i + 1, acc)
       ELSE DedupFrom(arr, i + 1, Append(acc, arr[i]))

DedupByKey(arr) == DedupFrom(arr, 1, <<>>)

\* for x in cx-half..cx+half: push {x, y}
DiamondRow(cx, half, y) == [k \in 1..(2 * half + 1) |-> Pos(cx - half + k - 1, y)]

DiamondObstacles(w, h) ==
  LET cx == CenterX(w)
      cy == CenterY(h)
  IN  DiamondRow(cx, 0, cy - 3) \o DiamondRow(cx, 1, cy - 2)
        \o DiamondRow(cx, 2, cy - 1) \o DiamondRow(cx, 3, cy)
        \o DiamondRow(cx, 2, cy + 1) \o DiamondRow(cx, 1, cy + 2)
        \o DiamondRow(cx, 0, cy + 3)

PatternObstacles(pattern, w, h) ==
  CASE pattern = "normal"  -> CrossObstacles(w, h)
    [] pattern = "diamond" -> DiamondObstacles(w, h)
    [] pattern = "none"    -> <<>>
    [] OTHER               -> CrossObstacles(w, h)

----------------------------------------------------------------------------
(* class Game *)

Directions == {"up", "down", "left", "right"}

\* What a caller may pass to step: the four directions and a string that is
\* none of them.
ActionStrings == Directions \cup {"jump"}

\* What a caller may pass to setObstaclePattern.
PatternNames == {"normal", "diamond", "none", "ring"}

IsWithinBounds(g, x, y) == x >= 0 /\ x < g.width /\ y >= 0 /\ y < g.height

IsOccupied(g, x, y) ==
  \/ g.player # Undefined /\ g.player.x = x /\ g.player.y = y
  \/ g.food # Undefined /\ g.food.x = x /\ g.food.y = y
  \/ Some(g.obstacles, x, y)
  \/ Some(g.redBlocks, x, y)
  \/ Some(g.greenBlocks, x, y)

\* The cells Math.floor(Math.random() * width), Math.floor(Math.random() * height)
\* can name.
Draws(g) == {Pos(x, y) : x \in 0..(g.width - 1), y \in 0..(g.height - 1)}

\* The cells isOccupied answers true for.
Elements(arr) == {arr[i] : i \in 1..Len(arr)}

OccupiedCells(g) ==
  {g.player, g.food} \cup Elements(g.obstacles)
    \cup Elements(g.redBlocks) \cup Elements(g.greenBlocks)

\* The draws on which the loop of getRandomFreePosition ends.
FreeCells(g) == Draws(g) \ OccupiedCells(g)

\* getRandomFreePosition: a free cell, or the throw after 1000 draws that all
\* named an occupied cell (possible as soon as one cell is occupied).
GetRandomFreePosition(g) ==
  {[thrown |-> FALSE, pos |-> p] : p \in FreeCells(g)}
    \cup (IF Draws(g) \ FreeCells(g) # {}
          THEN {[thrown |-> TRUE, pos |-> Undefined]}
          ELSE {})

\* An operation's outcome: the instance as the operation left it, and whether
\* it raised.
Ok(g) == [game |-> g, thrown |-> FALSE]

Raised(g) == [game |-> g, thrown |-> TRUE]

\* Run F on every outcome that did not raise.
Then(outcomes, F(_)) ==
  UNION {IF o.thrown THEN {o} ELSE F(o.game) : o \in outcomes}

PlacePlayer(g) ==
  {IF d.thrown THEN Raised(g) ELSE Ok([g EXCEPT !.player = d.pos])
     : d \in GetRandomFreePosition(g)}

\* Fault: the food is put on any cell of the board, occupied or not.
PlaceFoodAnywhere(g) ==
  {Ok([g EXCEPT !.food = p]) : p \in Draws(g)}

PlaceFood(g) ==
  {IF d.thrown THEN Raised(g) ELSE Ok([g EXCEPT !.food = d.pos])
     : d \in GetRandomFreePosition(g)}

\* Fault: the starting cell is not marked as visited.
MarkStartSkipped(g) ==
  {Ok([g EXCEPT !.moveHistory = <<>>, !.visitedCells = {}])}

\* this.moveHistory = []; this.visitedCells = new Set([start])
MarkStart(g) ==
  {Ok([g EXCEPT !.moveHistory = <<>>,
                !.visitedCells = {PosKey(g.player.x, g.player.y)}])}

\* new Game()
Constructed(board) ==
  LET g0 == [width |-> board.w, height |-> board.h,
             tickCount |-> 0, score |-> 0,
             foodEaten |-> 0, redBlocksEaten |-> 0, greenBlocksEaten |-> 0,
             obstacles |-> DedupByKey(CrossObstacles(board.w, board.h)),
             redBlocks |-> <<>>, greenBlocks |-> <<>>,
             player |-> Undefined, food |-> Undefined,
             moveHistory |-> <<>>,
             cyclePenaltyCount |-> 0, wallPenaltyCount |-> 0,
             visitedCells |-> {}]
  IN  Then(Then(PlacePlayer(g0), PlaceFood), MarkStart)

\* Fault: a direction that is none of the four moves the player right.
MovePlayerDefaultRight(g, direction) ==
  LET newX == CASE direction = "left" -> g.player.x - 1
                [] OTHER              -> g.player.x + 1
  IN  IF direction \in {"up", "down"} THEN g
      ELSE IF ~IsWithinBounds(g, newX, g.player.y) THEN g
      ELSE IF Some(g.obstacles, newX, g.player.y) THEN g
      ELSE [g EXCEPT !.player = Pos(newX, g.player.y)]

MovePlayer(g, direction) ==
  LET newX == CASE direction = "left"  -> g.player.x - 1
                [] direction = "right" -> g.player.x + 1
                [] OTHER               -> g.player.x
      newY == CASE direction = "up"    -> g.player.y - 1
                [] direction = "down"  -> g.player.y + 1
                [] OTHER               -> g.player.y
  IN  IF direction \notin Directions THEN g
      ELSE IF ~IsWithinBounds(g, newX, newY) THEN g
      ELSE IF Some(g.obstacles, newX, newY) THEN g
      ELSE [g EXCEPT !.player = Pos(newX, newY)]

\* Fault: the pickup is scored and counted but the food stays where it is.
CollideFoodInPlace(g) ==
  IF g.player.x = g.food.x /\ g.player.y = g.food.y
  THEN {Ok([g EXCEPT !.score = @ + 400, !.foodEaten = @ + 1])}
  ELSE {Ok(g)}

\* checkCollisions, the food
CollideFood(g) ==
  IF g.player.x = g.food.x /\ g.player.y = g.food.y
  THEN LET g1 == [g EXCEPT !.score = @ + 400, !.foodEaten = @ + 1]
       IN  PlaceFood(g1)
  ELSE {Ok(g)}

\* checkCollisions, the loop over greenBlocks from index i on
RECURSIVE GreenLoop(_, _)
GreenLoop(g, i) ==
  IF i > Len(g.greenBlocks) THEN {Ok(g)}
  ELSE IF g.player.x = g.greenBlocks[i].x /\ g.player.y = g.greenBlocks[i].y
       THEN LET g1 == [g EXCEPT !.score = @ + 250,
                                !.greenBlocksEaten = @ + 1,
                                !.greenBlocks = RemoveAt(@, i)]
            IN  IF Len(g1.redBlocks) > 0
                THEN UNION {GreenLoop([g1 EXCEPT !.redBlocks = RemoveAt(@, r)], i)
                              : r \in 1..Len(g1.redBlocks)}
                ELSE GreenLoop(g1, i)
       ELSE GreenLoop(g, i + 1)

\* Fault: a red pickup is scored and counted but the block stays.
CollideRedInPlace(g) ==
  IF Some(g.redBlocks, g.player.x, g.player.y)
  THEN {Ok([g EXCEPT !.score = @ - 200, !.redBlocksEaten = @ + 1])}
  ELSE {Ok(g)}

\* checkCollisions, the loop over redBlocks from index i on
RECURSIVE RedLoop(_, _)
RedLoop(g, i) ==
  IF i > Len(g.redBlocks) THEN {Ok(g)}
  ELSE IF g.player.x = g.redBlocks[i].x /\ g.player.y = g.redBlocks[i].y
       THEN RedLoop([g EXCEPT !.score = @ - 200,
                              !.redBlocksEaten = @ + 1,
                              !.redBlocks = RemoveAt(@, i)], i)
       ELSE RedLoop(g, i + 1)

\* Fault: a green pickup removes no red block.
RECURSIVE GreenLoopKeepsRed(_, _)
GreenLoopKeepsRed(g, i) ==
  IF i > Len(g.greenBlocks) THEN {Ok(g)}
  ELSE IF g.player.x = g.greenBlocks[i].x /\ g.player.y = g.greenBlocks[i].y
       THEN GreenLoopKeepsRed([g EXCEPT !.score = @ + 250,
                                        !.greenBlocksEaten = @ + 1,
                                        !.greenBlocks = RemoveAt(@, i)], i)
       ELSE GreenLoopKeepsRed(g, i + 1)

CollideGreenKeepsRed(g) == GreenLoopKeepsRed(g, 1)

CollideGreen(g) == GreenLoop(g, 1)

CollideRed(g) == RedLoop(g, 1)

CheckCollisions(g) == Then(Then(CollideFood(g), CollideGreen), CollideRed)

SpawnRed(g) ==
  {IF d.thrown THEN Raised(g) ELSE Ok([g EXCEPT !.redBlocks = Append(@, d.pos)])
     : d \in GetRandomFreePosition(g)}

SpawnGreen(g) ==
  {IF d.thrown THEN Raised(g) ELSE Ok([g EXCEPT !.greenBlocks = Append(@, d.pos)])
     : d \in GetRandomFreePosition(g)}

SpawnBonusPair(g) == Then(SpawnRed(g), SpawnGreen)

\* Fault: the spawn test reads the tick count before it is advanced.
TickTestsOldCount(g) ==
  LET g1 == [g EXCEPT !.tickCount = @ + 1]
  IN  IF g.tickCount % TICK_SPAWN_INTERVAL = 0 THEN SpawnBonusPair(g1) ELSE {Ok(g1)}

\* tick()
Tick(g) ==
  LET g1 == [g EXCEPT !.tickCount = @ + 1]
  IN  IF g1.tickCount % TICK_SPAWN_INTERVAL = 0 THEN SpawnBonusPair(g1) ELSE {Ok(g1)}

\* reset(), up to its return
ResetFields(g) == [g EXCEPT !.tickCount = 0, !.score = 0]

ClearBlocks(g) == {Ok([g EXCEPT !.redBlocks = <<>>, !.greenBlocks = <<>>])}

ResetOutcomes(g) ==
  Then(Then(Then(PlacePlayer(ResetFields(g)), ClearBlocks), PlaceFood), MarkStart)

\* moveHistory.push(action); if (moveHistory.length > 20) moveHistory.shift()
PushMove(history, action) ==
  LET h == Append(history, action)
  IN  IF Len(h) > 20 THEN Tail(h) ELSE h

\* arr.slice(-n)
LastN(arr, n) == SubSeq(arr, Len(arr) - n + 1, Len(arr))

\* last8.slice(0, 4).join(',') === last8.slice(4).join(',')
CycleRepeated(history) ==
  /\ Len(history) >= 8
  /\ LET last8 == LastN(history, 8)
     IN  SubSeq(last8, 1, 4) = SubSeq(last8, 5, 8)

\* [...new Set(last10)]
UniqueMoves(arr) == {arr[i] : i \in 1..Len(arr)}

Alternates(arr) == \A i \in 1..(Len(arr) - 1) : arr[i] # arr[i + 1]

\* last10.reduce((count, move) => count + (move === candidate ? 1 : 0), 0)
CountSame(arr, candidate) == Cardinality({i \in 1..Len(arr) : arr[i] = candidate})

\* The pattern penalties step applies for a move history, by name.
PatternPenalties(history) ==
  (IF CycleRepeated(history) THEN {"cycle"} ELSE {})
    \cup
  (IF Len(history) >= 10
   THEN LET last10 == LastN(history, 10)
            uniqueMoves == UniqueMoves(last10)
        IN  IF Cardinality(uniqueMoves) = 1 THEN {"constant"}
            ELSE IF Cardinality(uniqueMoves) = 2
                 THEN (IF Alternates(last10) THEN {"alternating"} ELSE {})
                 ELSE (IF CountSame(last10, last10[1]) >= 8 THEN {"dominant"} ELSE {})
   ELSE {})

\* What each pattern penalty subtracts from the score, in tenths.
PenaltyAmount(name) ==
  CASE name = "cycle"       -> 15
    [] name = "constant"    -> 20
    [] name = "alternating" -> 20
    [] name = "dominant"    -> 5

PatternPenaltyTotal(names) ==
  (IF "cycle" \in names THEN PenaltyAmount("cycle") ELSE 0)
    + (IF "constant" \in names THEN PenaltyAmount("constant") ELSE 0)
    + (IF "alternating" \in names THEN PenaltyAmount("alternating") ELSE 0)
    + (IF "dominant" \in names THEN PenaltyAmount("dominant") ELSE 0)

\* step(action) up to the call of checkCollisions: the instance, and the names
\* of the score adjustments that were made.
StepMoved(g, action) ==
  LET oldX == g.player.x
      oldY == g.player.y
      g1 == [MovePlayer(g, action) EXCEPT !.moveHistory = PushMove(@, action)]
      posKey == PosKey(g1.player.x, g1.player.y)
      unvisited == posKey \notin g1.visitedCells
      g2 == IF unvisited
            THEN [g1 EXCEPT !.visitedCells = @ \cup {posKey}, !.score = @ + 6]
            ELSE g1
      d_old == Abs(oldX - g2.food.x) + Abs(oldY - g2.food.y)
      d_new == Abs(g2.player.x - g2.food.x) + Abs(g2.player.y - g2.food.y)
      g3 == [g2 EXCEPT !.score = @ + 10 * (d_old - d_new)]
      \* (d_old - d_new) < 0.5, on integers
      slow == 2 * (d_old - d_new) < 1
      g4 == IF slow THEN [g3 EXCEPT !.score = @ - 5] ELSE g3
      patterns == PatternPenalties(g4.moveHistory)
      g5 == [g4 EXCEPT !.score = @ - PatternPenaltyTotal(patterns),
                       !.cyclePenaltyCount =
                          IF "cycle" \in patterns THEN @ + 1 ELSE @]
      stuck == g5.player.x = oldX /\ g5.player.y = oldY
      g6 == IF stuck
            THEN [g5 EXCEPT !.score = @ - 30, !.wallPenaltyCount = @ + 1]
            ELSE g5
  IN  [game |-> g6,
       applied |-> patterns
                     \cup (IF unvisited THEN {"explore"} ELSE {})
                     \cup (IF slow THEN {"progress"} ELSE {})
                     \cup (IF stuck THEN {"wall"} ELSE {})]

\* step(action): checkCollisions and tick on the moved instance
StepOutcomes(g, action) == Then(CheckCollisions(StepMoved(g, action).game), Tick)

\* Fault: step reports the episode as over.
AlwaysDone == TRUE

\* The done flag step returns.
StepDone == FALSE

\* return { state: this.getState(), reward, done: false }, without the state
StepReturn(g, previousScore) ==
  [reward |-> g.score - previousScore, done |-> StepDone]

\* getState()
GetState(g) ==
  [player |-> g.player, food |-> g.food,
   redBlocks |-> g.redBlocks, greenBlocks |-> g.greenBlocks,
   obstacles |-> g.obstacles, tickCount |-> g.tickCount, score |-> g.score]

\* setObstaclePattern(pattern)
WithObstaclePattern(g, pattern) ==
  [g EXCEPT !.obstacles = PatternObstacles(pattern, g.width, g.height)]

----------------------------------------------------------------------------
(* The feature encoder: the window of cells around the player, each cell     *)
(* one-hot over numClasses categories, and the offset of the food in         *)
(* thousandths, rounded down.                                                *)

\* gridSize (9), scaled down with the board: the window reaches Half cells
\* from the player in each direction.
gridSize == 3

numClasses == 6

\* determineCategory(x, y, state, game)
DetermineCategory(x, y, state, g) ==
  IF x < 0 \/ x >= g.width \/ y < 0 \/ y >= g.height THEN 0
  ELSE IF Some(state.obstacles, x, y) THEN 0
  ELSE IF Some(state.redBlocks, x, y) THEN 1
  ELSE IF Some(state.greenBlocks, x, y) THEN 2
  ELSE IF state.food # Undefined /\ state.food.x = x /\ state.food.y = y THEN 3
  ELSE IF state.player.x = x /\ state.player.y = y THEN 4
  ELSE 5

\* oneHotEncode(category, numClasses): new Array(n).fill(0); vec[category] = 1
OneHotEncode(category) ==
  [[c \in 1..numClasses |-> 0] EXCEPT ![category + 1] = 1]

\* Math.floor(gridSize / 2)
Half == gridSize \div 2

\* getFeatureVector, the inner loop: the cells of row i pushed for -half..j
RECURSIVE GridRow(_, _, _, _)
GridRow(state, g, i, j) ==
  IF j < -Half THEN <<>>
  ELSE Append(GridRow(state, g, i, j - 1),
              OneHotEncode(DetermineCategory(state.player.x + j, state.player.y + i,
                                             state, g)))

\* getFeatureVector, the outer loop: the rows pushed for -half..i
RECURSIVE GridRows(_, _, _)
GridRows(state, g, i) ==
  IF i < -Half THEN <<>>
  ELSE Append(GridRows(state, g, i - 1), GridRow(state, g, i, Half))

\* getFeatureVector(state, game)
GetFeatureVector(state, g) ==
  [grid |-> GridRows(state, g, Half),
   offset |-> << (5000 * (state.food.x - state.player.x)) \div g.width,
                 (5000 * (state.food.y - state.player.y)) \div g.height >>]

----------------------------------------------------------------------------
(* The record of the last call. *)

NoReturn == [reward |-> 0, done |-> FALSE]

\* A call of step: its argument, its locals oldX, oldY and previousScore, the
\* food and the food counter it found, the score adjustments it made before
\* checkCollisions, the score it had reached then, and what it returned.
StepRecord(action, g, moved, ret) ==
  [op |-> "step", arg |-> action,
   old |-> g.player, previousScore |-> g.score,
   oldFood |-> g.food, oldFoodEaten |-> g.foodEaten,
   applied |-> moved.applied, shaped |-> moved.game.score, ret |-> ret]

\* A call of another operation.
CallRecord(op, arg) ==
  [op |-> op, arg |-> arg,
   old |-> Undefined, previousScore |-> 0,
   oldFood |-> Undefined, oldFoodEaten |-> 0,
   applied |-> {}, shaped |-> 0, ret |-> NoReturn]

\* What the variables of the other parts hold while a part runs alone.
Absent == [width |-> 0, height |-> 0]

NoGame ==
  /\ game = Absent
  /\ thrown = FALSE
  /\ last = CallRecord("none", "")
  /\ calls = 0
  /\ resets = 0

NoLayout == layout = [width |-> 0, height |-> 0, via |-> "", obstacles |-> <<>>]

\* No snapshot has been taken.
NoSnapshot ==
  snapshot = [taken |-> FALSE, tampered |-> FALSE, shared |-> {},
              state |-> [player |-> Undefined, food |-> Undefined,
                         redBlocks |-> <<>>, greenBlocks |-> <<>>,
                         obstacles |-> <<>>, tickCount |-> 0, score |-> 0]]

\* No optimizer has been built.
NoOptimizer == learningRate = 0

NoFeatureVector == [grid |-> <<>>, offset |-> <<>>]

NoFeature == currentFeature = NoFeatureVector

NoAux == NoLayout /\ NoSnapshot /\ NoOptimizer /\ NoFeature

NoPattern == moveHistory = <<>> /\ penalties = {}

NoSample ==
  /\ sampleBuffer = <<>>
  /\ sampleSize = 0
  /\ sampleBatch = <<>>
  /\ sampled = FALSE

\* loadTrainingState returned null.
NoCheckpoint ==
  [present |-> FALSE, episode |-> 0, epsilon |-> 0, replayBuffer |-> <<>>,
   episodeLosses |-> <<>>, episodeMaxQs |-> <<>>, baseLearningRate |-> 0]

\* const checkpointPath = 'checkpoint.json': the file train reads at its start
CheckpointPath == "checkpoint.json"

\* path.join(finalDir, 'checkpoint.json'), finalDir = ./saved-model_<time>
FinalPath == "saved-model_<time>/checkpoint.json"

\* path.join(snapshotDir, ...), snapshotDir = ./snapshot_<episode>_<reward>_<time>
AutoPath == "snapshot_<episode>_<reward>_<time>/checkpoint.json"

\* path.join(snapshotDir, ...), snapshotDir = ./model_snapshot_<time>
SignalPath == "model_snapshot_<time>/checkpoint.json"

\* The locations followed; the directories of one kind stand for one location,
\* which holds what was written there last.
Paths == {CheckpointPath, FinalPath, AutoPath, SignalPath}

\* fs.existsSync(path) is false
NoFile == [exists |-> FALSE, text |-> <<>>]

NoHistory == episodeLosses = <<>> /\ episodeMaxQs = <<>> /\ baseLearningRate = 0

NoIo ==
  /\ resumeModelPath = FALSE
  /\ files = [p \in Paths |-> NoFile]
  /\ pending = {}
  /\ log = {}
  /\ run = 0

NoTrain ==
  /\ pc = "off"
  /\ trainingState = NoCheckpoint
  /\ episode = 0
  /\ epsilon = 0
  /\ replayBuffer = <<>>
  /\ step = 0
  /\ stopTraining = FALSE
  /\ episodesRun = 0
  /\ pushes = 0
  /\ broke = FALSE
  /\ NoHistory
  /\ NoIo

----------------------------------------------------------------------------
(* The environment driven by construction, reset and step. *)

FreshGames == {o.game : o \in {c \in UNION {Constructed(b) : b \in Boards} : ~c.thrown}}

Init ==
  /\ game \in FreshGames
  /\ thrown = FALSE
  /\ last = CallRecord("new", "")
  /\ calls = 0
  /\ resets = 0
  /\ NoPattern
  /\ NoSample
  /\ NoAux
  /\ NoTrain

DoStep(action) ==
  \E o \in StepOutcomes(game, action) :
    /\ game' = o.game
    /\ thrown' = o.thrown
    /\ last' = StepRecord(action, game, StepMoved(game, action),
                          IF o.thrown THEN NoReturn
                          ELSE StepReturn(o.game, game.score))
    /\ calls' = calls + 1
    /\ UNCHANGED resets

DoReset ==
  \E o \in ResetOutcomes(game) :
    /\ game' = o.game
    /\ thrown' = o.thrown
    /\ last' = CallRecord("reset", "")
    /\ calls' = calls + 1
    /\ resets' = resets + 1

Step(action) ==
  /\ ~thrown /\ calls < MaxCalls
  /\ DoStep(action)
  /\ UNCHANGED <<patternVars, sampleVars, trainVars>>
  /\ UNCHANGED auxVars

Reset ==
  /\ ~thrown /\ calls < MaxCalls
  /\ DoReset
  /\ UNCHANGED <<patternVars, sampleVars, trainVars>>
  /\ UNCHANGED auxVars

Next ==
  \/ \E action \in ActionStrings : Step(action)
  \/ Reset

Spec == Init /\ [][Next]_vars

----------------------------------------------------------------------------
(* The environment on walks long enough for step's pattern checks: two of    *)
(* the directions, from the start cell next to the right edge, a reset       *)
(* coming late in the walk.                                                  *)

WalkActions == {"left", "right"}

WalkStart == Pos(4, 0)

InitWalk == Init /\ game.player = WalkStart

StepWalk(action) ==
  /\ ~thrown /\ calls < MaxWalkCalls
  /\ DoStep(action)
  /\ UNCHANGED <<patternVars, sampleVars, trainVars>>
  /\ UNCHANGED auxVars

ResetWalk ==
  /\ ~thrown /\ calls < MaxWalkCalls
  /\ calls >= MaxWalkCalls - 2
  /\ DoReset
  /\ UNCHANGED <<patternVars, sampleVars, trainVars>>
  /\ UNCHANGED auxVars

NextWalk ==
  \/ \E action \in WalkActions : StepWalk(action)
  \/ ResetWalk

SpecWalk == InitWalk /\ [][NextWalk]_vars

----------------------------------------------------------------------------
(* The environment with setObstaclePattern among its operations. *)

ApiStep(action) ==
  /\ ~thrown /\ calls < MaxApiCalls /\ game.tickCount < MaxApiTicks
  /\ DoStep(action)
  /\ UNCHANGED <<patternVars, sampleVars, trainVars>>
  /\ UNCHANGED auxVars

ApiReset ==
  /\ ~thrown /\ calls < MaxApiCalls /\ resets < MaxApiResets
  /\ DoReset
  /\ UNCHANGED <<patternVars, sampleVars, trainVars>>
  /\ UNCHANGED auxVars

SetObstaclePattern(pattern) ==
  /\ ~thrown /\ calls < MaxApiCalls
  /\ game' = WithObstaclePattern(game, pattern)
  /\ last' = CallRecord("setObstaclePattern", pattern)
  /\ calls' = calls + 1
  /\ UNCHANGED <<thrown, resets>>
  /\ UNCHANGED <<patternVars, sampleVars, trainVars>>
  /\ UNCHANGED auxVars

NextApi ==
  \/ \E action \in ActionStrings : ApiStep(action)
  \/ ApiReset
  \/ \E pattern \in PatternNames : SetObstaclePattern(pattern)

\* index.js builds the instance and, in play and auto mode, calls
\* setObstaclePattern with the --obstacle argument before anything else.
InitApi ==
  /\ \E g \in FreshGames :
        \/ game = g /\ last = CallRecord("new", "")
        \/ \E pattern \in PatternNames :
              /\ game = WithObstaclePattern(g, pattern)
              /\ last = CallRecord("setObstaclePattern", pattern)
  /\ thrown = FALSE
  /\ calls = 0
  /\ resets = 0
  /\ NoPattern
  /\ NoSample
  /\ NoAux
  /\ NoTrain

SpecApi == InitApi /\ [][NextApi]_vars

----------------------------------------------------------------------------
(* step's pattern checks on their own: any history of HistoryFill moves, and *)
(* the moves pushed onto it.                                                 *)

\* The action strings the histories are made of.
Moves == {"up", "down", "left"}

RECURSIVE Histories(_)
Histories(n) ==
  IF n = 0 THEN {<<>>}
  ELSE {Append(h, m) : h \in Histories(n - 1), m \in Moves}

InitPattern ==
  /\ moveHistory \in Histories(HistoryFill)
  /\ penalties = {}
  /\ NoGame
  /\ NoSample
  /\ NoAux
  /\ NoTrain

\* step(action), its moveHistory and the pattern penalties it applies
PushAndCheck(action) ==
  /\ Len(moveHistory) < HistoryFill + MaxPushes
  /\ moveHistory' = PushMove(moveHistory, action)
  /\ penalties' = PatternPenalties(moveHistory')
  /\ UNCHANGED <<gameVars, sampleVars, trainVars>>
  /\ UNCHANGED auxVars

NextPattern == \E action \in Moves : PushAndCheck(action)

SpecPattern == InitPattern /\ [][NextPattern]_vars

----------------------------------------------------------------------------
(* sampleEnhancedBatch(buffer, batchSize).  A transition is a record with a  *)
(* reward and a priority; a batch is given by the indices (from 1) of the    *)
(* buffer entries it refers to.                                              *)

\* transition.priority of a transition that has none (undefined); priorities
\* that are present are not negative.
NoPriority == -1

\* The numerators k of the values k/RandomGrid that Math.random() returns.
RandomDraws == 0..(RandomGrid - 1)

RECURSIVE DrawSeqs(_)
DrawSeqs(n) ==
  IF n = 0 THEN {<<>>}
  ELSE {Append(ds, k) : ds \in DrawSeqs(n - 1), k \in RandomDraws}

\* Math.floor(Math.random() * length), counted from 1
RandomIndex(k, length) == (k * length) \div RandomGrid + 1

HalfBatch(batchSize) == batchSize \div 2

\* for i < halfBatch: uniformSamples.push(buffer[Math.floor(Math.random() * buffer.length)])
UniformSamples(buf, draws) ==
  [i \in 1..Len(draws) |-> RandomIndex(draws[i], Len(buf))]

OriginalPriority(transition) ==
  IF transition.priority # NoPriority THEN transition.priority
  ELSE Abs(transition.reward)

\* originalPriority * ((i + 1) / buffer.length)^2 for the entry at index j = i + 1,
\* times buffer.length^2 (the common factor cancels in p / totalPriority).
EffectivePriority(buf, j) == OriginalPriority(buf[j]) * j * j

\* The sum of the first j effective priorities.
RECURSIVE CumulativePriority(_, _)
CumulativePriority(buf, j) ==
  IF j = 0 THEN 0 ELSE CumulativePriority(buf, j - 1) + EffectivePriority(buf, j)

TotalPriority(buf) == CumulativePriority(buf, Len(buf))

\* One round of the prioritized loop with random = k/RandomGrid: the first j
\* with random < cumulative is pushed.  When totalPriority is 0 every term is
\* 0/0 = NaN, random < NaN is false for every j, and nothing is pushed.
PrioritizedPick(buf, k) ==
  IF TotalPriority(buf) = 0 THEN <<>>
  ELSE LET Hit(j) == k * TotalPriority(buf) < RandomGrid * CumulativePriority(buf, j)
       IN  <<CHOOSE j \in 1..Len(buf) : Hit(j) /\ \A i \in 1..(j - 1) : ~Hit(i)>>

RECURSIVE PrioritizedSamples(_, _)
PrioritizedSamples(buf, draws) ==
  IF draws = <<>> THEN <<>>
  ELSE PrioritizedPick(buf, Head(draws)) \o PrioritizedSamples(buf, Tail(draws))

\* The batches sampleEnhancedBatch can return.
SampleEnhancedBatch(buf, batchSize) ==
  IF Len(buf) < batchSize
  THEN {[i \in 1..Len(buf) |-> i]}
  ELSE {UniformSamples(buf, u) \o PrioritizedSamples(buf, p)
          : u \in DrawSeqs(HalfBatch(batchSize)), p \in DrawSeqs(HalfBatch(batchSize))}

\* The transitions the sampled buffers are made of.
SampleTransitions ==
  {[reward |-> -1, priority |-> p] : p \in {NoPriority, 0, 2}}

RECURSIVE SampleBuffers(_)
SampleBuffers(n) ==
  IF n = 0 THEN {<<>>}
  ELSE SampleBuffers(n - 1)
         \cup {Append(b, t) : b \in {c \in SampleBuffers(n - 1) : Len(c) = n - 1},
                              t \in SampleTransitions}

InitSample ==
  /\ sampleBuffer \in SampleBuffers(MaxSampleLen)
  /\ sampleSize \in 0..(MaxSampleLen + 1)
  /\ sampleBatch = <<>>
  /\ sampled = FALSE
  /\ NoGame
  /\ NoPattern
  /\ NoTrain
  /\ NoAux

Sample ==
  /\ ~sampled
  /\ sampleBatch' \in SampleEnhancedBatch(sampleBuffer, sampleSize)
  /\ sampled' = TRUE
  /\ UNCHANGED <<sampleBuffer, sampleSize>>
  /\ UNCHANGED <<gameVars, patternVars, trainVars>>
  /\ UNCHANGED auxVars

NextSample == Sample

SpecSample == InitSample /\ [][NextSample]_vars

----------------------------------------------------------------------------
(* saveTrainingState and loadTrainingState.  A JSON text is kept as the     *)
(* tree of its values: <<"number", n>>, <<"true">>, <<"false">>,             *)
(* <<"array", values>> and <<"object", members>>, a member being the pair   *)
(* of its key and its value, in the order JSON.stringify writes them.  The  *)
(* numbers of a training state are finite; JSON.stringify writes a finite    *)
(* number as the shortest decimal that reads back as the same number.        *)

\* Fault: a number is written with its last digit dropped.
JsonNumberShort(n) == <<"number", n \div 10>>

JsonNumber(n) == <<"number", n>>

JsonBoolean(b) == IF b THEN <<"true">> ELSE <<"false">>

JsonNumbers(arr) == <<"array", [i \in 1..Len(arr) |-> JsonNumber(arr[i])]>>

\* grid: rows of cells, each cell the array of its one-hot entries
JsonGrid(grid) ==
  <<"array", [i \in 1..Len(grid) |->
                <<"array", [j \in 1..Len(grid[i]) |-> JsonNumbers(grid[i][j])]>>]>>

\* a feature vector { grid, offset }
JsonFeature(f) ==
  <<"object", << <<"grid", JsonGrid(f.grid)>>, <<"offset", JsonNumbers(f.offset)>> >> >>

\* A transition { state, action, reward, nextState, done, priority }: a
\* property whose value is undefined is left out.  The transitions of train's
\* replay buffer are followed without their feature vectors.
JsonTransition(t) ==
  <<"object",
    (IF "state" \in DOMAIN t THEN << <<"state", JsonFeature(t.state)>> >> ELSE <<>>)
      \o << <<"action", JsonNumber(t.action)>>, <<"reward", JsonNumber(t.reward)>> >>
      \o (IF "nextState" \in DOMAIN t
          THEN << <<"nextState", JsonFeature(t.nextState)>> >> ELSE <<>>)
      \o << <<"done", JsonBoolean(t.done)>> >>
      \o (IF t.priority # NoPriority
          THEN << <<"priority", JsonNumber(t.priority)>> >> ELSE <<>>) >>

\* JSON.stringify(state) for state = { episode, epsilon, replayBuffer,
\* episodeLosses, episodeMaxQs, baseLearningRate }
Stringify(state) ==
  <<"object",
    << <<"episode", JsonNumber(state.episode)>>,
       <<"epsilon", JsonNumber(state.epsilon)>>,
       <<"replayBuffer",
         <<"array", [i \in 1..Len(state.replayBuffer) |->
                       JsonTransition(state.replayBuffer[i])]>> >>,
       <<"episodeLosses", JsonNumbers(state.episodeLosses)>>,
       <<"episodeMaxQs", JsonNumbers(state.episodeMaxQs)>>,
       <<"baseLearningRate", JsonNumber(state.baseLearningRate)>> >> >>

HasMember(obj, key) == \E i \in 1..Len(obj[2]) : obj[2][i][1] = key

\* obj[key] of a parsed object that has the key
Member(obj, key) == obj[2][CHOOSE i \in 1..Len(obj[2]) : obj[2][i][1] = key][2]

ParseNumber(j) == j[2]

ParseBoolean(j) == j[1] = "true"

ParseNumbers(j) == [i \in 1..Len(j[2]) |-> ParseNumber(j[2][i])]

ParseGrid(j) ==
  [i \in 1..Len(j[2]) |-> [k \in 1..Len(j[2][i][2]) |-> ParseNumbers(j[2][i][2][k])]]

ParseFeature(j) ==
  [grid |-> ParseGrid(Member(j, "grid")), offset |-> ParseNumbers(Member(j, "offset"))]

\* A key the text does not hold reads as undefined.
ParseTransition(j) ==
  LET priority == IF HasMember(j, "priority") THEN ParseNumber(Member(j, "priority"))
                  ELSE NoPriority
  IN  IF HasMember(j, "state")
      THEN [state |-> ParseFeature(Member(j, "state")),
            action |-> ParseNumber(Member(j, "action")),
            reward |-> ParseNumber(Member(j, "reward")),
            nextState |-> ParseFeature(Member(j, "nextState")),
            done |-> ParseBoolean(Member(j, "done")),
            priority |-> priority]
      ELSE [action |-> ParseNumber(Member(j, "action")),
            reward |-> ParseNumber(Member(j, "reward")),
            done |-> ParseBoolean(Member(j, "done")),
            priority |-> priority]

\* JSON.parse(data) of a text JSON.stringify wrote
Parse(text) ==
  [present |-> TRUE,
   episode |-> ParseNumber(Member(text, "episode")),
   epsilon |-> ParseNumber(Member(text, "epsilon")),
   replayBuffer |->
     LET arr == Member(text, "replayBuffer")[2]
     IN  [i \in 1..Len(arr) |-> ParseTransition(arr[i])],
   episodeLosses |-> ParseNumbers(Member(text, "episodeLosses")),
   episodeMaxQs |-> ParseNumbers(Member(text, "episodeMaxQs")),
   baseLearningRate |-> ParseNumber(Member(text, "baseLearningRate"))]

\* A text JSON.parse raises on
Malformed == <<"malformed">>

\* console.error("Error saving training state:", err)
SaveError == "Error saving training state"

\* console.error("Error loading training state:", err)
LoadError == "Error loading training state"

\* saveTrainingState(state, path): fs.writeFileSync either writes the text or
\* raises, which is caught and printed.
SaveTrainingState(fs, lg, state, path) ==
  { [files |-> [fs EXCEPT ![path] = [exists |-> TRUE, text |-> Stringify(state)]],
     log |-> lg],
    [files |-> fs, log |-> lg \cup {<<SaveError, path>>}] }

\* Fault: a file that is missing or does not parse is read as an empty object.
LoadAsEmptyObject(fs, lg, path) ==
  IF ~fs[path].exists \/ fs[path].text = Malformed
  THEN [state |-> [NoCheckpoint EXCEPT !.present = TRUE], log |-> lg]
  ELSE [state |-> Parse(fs[path].text), log |-> lg]

\* loadTrainingState(path): null when the file is missing, null and a printed
\* error when JSON.parse raises, the parsed state otherwise.
LoadTrainingState(fs, lg, path) ==
  IF ~fs[path].exists THEN [state |-> NoCheckpoint, log |-> lg]
  ELSE IF fs[path].text = Malformed
       THEN [state |-> NoCheckpoint, log |-> lg \cup {<<LoadError, path>>}]
       ELSE [state |-> Parse(fs[path].text), log |-> lg]

----------------------------------------------------------------------------
(* train().  The exploration rate is kept in millionths (1.0 is 1000000),    *)
(* the rewards of transitions in hundredths (0.05 is 5).  A transition is    *)
(* the record of its action index, reward, done flag and priority.           *)

\* let epsilon = 1.0, and the 1.0 of Math.max(epsilon, 1.0)
One == 1000000

\* epsilonDecay = 0.999, in thousandths
epsilonDecay == 999

epsilonMin == 100000

epsilonBoost == 200000

explorationCycleLength == 1200

epsilonResetCycle == 200000

\* episode % 500 === 0: the purge of the oldest fifth of the replay buffer
PurgeInterval == 500

\* if (step % 50 === 0) await new Promise(resolve => setTimeout(resolve, 0))
YieldInterval == 50

\* STEP_PENALTY = 0.05, REWARD_MIN = -20, REWARD_MAX = 20
STEP_PENALTY == 5

REWARD_MIN == -2000

REWARD_MAX == 2000

Max(a, b) == IF a >= b THEN a ELSE b

Min(a, b) == IF a <= b THEN a ELSE b

\* const actions = ['up', 'down', 'left', 'right'], indexed from 0
Actions == <<"up", "down", "left", "right">>

\* Math.max(REWARD_MIN, Math.min(REWARD_MAX, reward - STEP_PENALTY)) for a
\* reward of the environment given in tenths
ClippedReward(reward) == Max(REWARD_MIN, Min(REWARD_MAX, 10 * reward - STEP_PENALTY))

Transition(actionIndex, clippedReward, done) ==
  [action |-> actionIndex, reward |-> clippedReward, done |-> done,
   priority |-> Abs(clippedReward)]

\* Fault: nothing is removed from a buffer that is over its capacity.
KeepAll(buf) == buf

\* Fault: a buffer over its capacity loses its newest entries.
EvictNewest(buf) ==
  IF Len(buf) > REPLAY_BUFFER_SIZE THEN SubSeq(buf, 1, REPLAY_BUFFER_SIZE) ELSE buf

\* if (length > REPLAY_BUFFER_SIZE) splice(0, length - REPLAY_BUFFER_SIZE)
Evict(buf) ==
  IF Len(buf) > REPLAY_BUFFER_SIZE
  THEN SubSeq(buf, Len(buf) - REPLAY_BUFFER_SIZE + 1, Len(buf))
  ELSE buf

\* The |TD error| values a learning update can write into a priority.
TdErrors == {0, 150}

\* Fault: the i-th TD error is written into the i-th entry of the buffer.
RECURSIVE WriteByPosition(_, _, _, _)
WriteByPosition(buf, batch, td, i) ==
  IF i > Len(batch) THEN buf
  ELSE WriteByPosition([buf EXCEPT ![i].priority = td[i]], batch, td, i + 1)

\* for i < batch.length: batch[i].priority = tdErrorArray[i], from entry i on;
\* the batch entries are the buffer's own objects.
RECURSIVE WritePriorities(_, _, _, _)
WritePriorities(buf, batch, td, i) ==
  IF i > Len(batch) THEN buf
  ELSE WritePriorities([buf EXCEPT ![batch[i]].priority = td[i]], batch, td, i + 1)

\* Fault: the restored rate is used as it is.
KeepEpsilon(e) == e

\* epsilon = Math.max(epsilon, 1.0)
ClampEpsilon(e) == Max(e, One)

\* epsilon * epsilonDecay, rounded down to a millionth
Decayed(e) == (e * epsilonDecay) \div 1000

\* epsilonMin + Math.random() * (epsilonResetCycle - epsilonMin)
BoostAmounts ==
  {epsilonMin + (k * (epsilonResetCycle - epsilonMin)) \div RandomGrid : k \in RandomDraws}

\* Fault: the decayed rate is kept even when it is under epsilonMin.
DecayOnly(e) == Decayed(e)

\* epsilon = epsilon * epsilonDecay; if (epsilon < epsilonMin) epsilon = epsilonBoost
DecayWithFloor(e) == IF Decayed(e) < epsilonMin THEN epsilonBoost ELSE Decayed(e)

\* Fault: on a cycle episode the boost is added to the decayed rate.
BoostAfterDecay(e, nextEpisode) ==
  IF nextEpisode % explorationCycleLength = 0
  THEN {DecayWithFloor(e) + boostAmount : boostAmount \in BoostAmounts}
  ELSE {DecayWithFloor(e)}

\* The rates the end of an episode can leave, for the counter already advanced.
EpsilonUpdate(e, nextEpisode) ==
  IF nextEpisode % explorationCycleLength = 0
  THEN {e + boostAmount : boostAmount \in BoostAmounts}
  ELSE {DecayWithFloor(e)}

\* Fault: the newest fifth is removed.
PurgedNewest(buf, nextEpisode) ==
  IF nextEpisode % PurgeInterval = 0 /\ Len(buf) > 0
  THEN SubSeq(buf, 1, Len(buf) - Len(buf) \div 5)
  ELSE buf

\* if (episode % 500 === 0 && length > 0) splice(0, Math.floor(length * 0.2))
Purged(buf, nextEpisode) ==
  IF nextEpisode % PurgeInterval = 0 /\ Len(buf) > 0
  THEN SubSeq(buf, Len(buf) \div 5 + 1, Len(buf))
  ELSE buf

\* let baseLearningRate = 0.001, in millionths
DefaultLearningRate == 1000

\* const learningRateDecayFactor = 0.98, in hundredths
learningRateDecayFactor == 98

\* const optimizerUpdateInterval = 200
optimizerUpdateInterval == 200

\* baseLearningRate * Math.pow(learningRateDecayFactor, epochsPassed), each
\* factor rounded down to a millionth
RECURSIVE LearningRateAt(_, _)
LearningRateAt(base, epochsPassed) ==
  IF epochsPassed = 0 THEN base
  ELSE (LearningRateAt(base, epochsPassed - 1) * learningRateDecayFactor) \div 100

\* episode % 200 === 0: the periodic snapshot
AutoSaveInterval == 200

\* The losses a learning update can return, and the largest Q values a greedy
\* choice can see, in hundredths.
BatchLosses == {40}

MaxQValues == {70}

\* Checkpoints an earlier run of train can have left.
Checkpoints ==
  { [present |-> TRUE, episode |-> 499, epsilon |-> 300000,
     replayBuffer |-> <<Transition(0, -355, FALSE), Transition(3, 105, FALSE)>>,
     episodeLosses |-> <<40>>, episodeMaxQs |-> <<>>, baseLearningRate |-> 1000],
    [present |-> TRUE, episode |-> 1199, epsilon |-> 1150000,
     replayBuffer |-> <<>>,
     episodeLosses |-> <<>>, episodeMaxQs |-> <<70>>, baseLearningRate |-> 1000] }

\* The file saveTrainingState wrote for a state
CheckpointFile(state) == [exists |-> TRUE, text |-> Stringify(state)]

\* Fault: the object is built from what train started with.
StateAtStart ==
  [episode |-> 1, epsilon |-> One, replayBuffer |-> <<>>,
   episodeLosses |-> <<>>, episodeMaxQs |-> <<>>,
   baseLearningRate |-> DefaultLearningRate]

\* The object train hands to saveTrainingState
StateToSave ==
  [episode |-> episode, epsilon |-> epsilon, replayBuffer |-> replayBuffer,
   episodeLosses |-> episodeLosses, episodeMaxQs |-> episodeMaxQs,
   baseLearningRate |-> baseLearningRate]

\* index.js: train(resumeModelPath).catch(err => console.error("Training error:", err))
TrainingError == "Training error"

\* console.error("Auto-snapshot save error:", err)
AutoSnapshotError == "Auto-snapshot save error"

\* console.error("Model save error:", err)
ModelSaveError == "Model save error"

\* Fault: an exception in the episode loop is caught and the next episode started.
CaughtAndRetried == "episode"

\* Where train is once an exception left it: no handler of train catches one,
\* the promise train returned is rejected.
Rejected == "failed"

\* The variables train declares before the restore
Defaults ==
  /\ episode = 1
  /\ epsilon = One
  /\ replayBuffer = <<>>
  /\ episodeLosses = <<>>
  /\ episodeMaxQs = <<>>
  /\ baseLearningRate = DefaultLearningRate
  /\ learningRate = DefaultLearningRate
  /\ step = 0
  /\ stopTraining = FALSE
  /\ episodesRun = 0
  /\ pushes = 0
  /\ broke = FALSE
  /\ pending = {}
  /\ log = {}

\* train() after loadTrainingState, with the stdin handler installed: a run
\* without a resume path, or one that found an earlier run's checkpoint.
InitTrain ==
  /\ pc = "restore"
  /\ \E ts \in Checkpoints \cup {NoCheckpoint} :
        /\ trainingState = ts
        /\ resumeModelPath = ts.present
        /\ files = [p \in Paths |->
                      IF p = CheckpointPath /\ ts.present THEN CheckpointFile(ts)
                      ELSE NoFile]
  /\ Defaults
  /\ run = 1
  /\ NoGame
  /\ NoPattern
  /\ NoSample
  /\ NoLayout
  /\ NoSnapshot
  /\ NoFeature

\* if (trainingState) { ... }; epsilon = Math.max(epsilon, 1.0)
Restore ==
  /\ pc = "restore"
  /\ episode' = IF trainingState.present THEN trainingState.episode ELSE episode
  /\ epsilon' = ClampEpsilon(IF trainingState.present THEN trainingState.epsilon
                             ELSE epsilon)
  /\ replayBuffer' = IF trainingState.present THEN trainingState.replayBuffer
                     ELSE replayBuffer
  /\ episodeLosses' = IF trainingState.present THEN trainingState.episodeLosses
                      ELSE episodeLosses
  /\ episodeMaxQs' = IF trainingState.present THEN trainingState.episodeMaxQs
                     ELSE episodeMaxQs
  /\ baseLearningRate' =
       IF trainingState.present /\ trainingState.baseLearningRate # 0
       THEN trainingState.baseLearningRate ELSE baseLearningRate
  /\ pc' = "episode"
  /\ UNCHANGED <<trainingState, step, stopTraining, episodesRun, pushes, broke>>
  /\ UNCHANGED <<gameVars, patternVars, sampleVars>>
  /\ UNCHANGED auxVars
  /\ UNCHANGED ioVars

\* const game = new Game(); ...; step = 0
StartEpisode ==
  /\ pc = "episode"
  /\ episodesRun < MaxEpisodes
  /\ \E board \in Boards : \E o \in Constructed(board) :
        /\ game' = o.game
        /\ thrown' = o.thrown
        /\ pc' = IF o.thrown THEN Rejected ELSE "step"
        /\ log' = IF o.thrown THEN log \cup {<<TrainingError, "">>} ELSE log
  /\ last' = CallRecord("new", "")
  /\ calls' = 0
  /\ resets' = 0
  /\ step' = 0
  /\ episodesRun' = episodesRun + 1
  /\ UNCHANGED <<trainingState, episode, epsilon, replayBuffer, stopTraining,
                 pushes, broke>>
  /\ UNCHANGED <<patternVars, sampleVars>>
  /\ UNCHANGED auxVars
  /\ UNCHANGED <<historyVars, resumeModelPath, files, pending, run>>

\* step++ : what follows the body of the step loop
Advance(nextPc) ==
  /\ step' = step + 1
  /\ pc' = nextPc

\* if (Math.random() < epsilon) a random action, else the greedy one: the
\* test can succeed when epsilon > 0 and can fail when epsilon < 1.
Choices(e) ==
  {c \in {"random", "greedy"} : (c = "random" /\ e > 0) \/ (c = "greedy" /\ e < One)}

\* Fault: an update is made as soon as the buffer holds anything.
BatchReadyAlways(buf) == Len(buf) >= 1

\* if (replayBuffer.length >= BATCH_SIZE)
BatchReady(buf) == Len(buf) >= BATCH_SIZE

\* The body of the step loop up to the eviction: the action is chosen (a
\* greedy choice pushes its largest Q value), game.step is called, the
\* transition is pushed.
TrainStep(actionIndex) ==
  /\ pc = "step"
  /\ step < maxSteps
  /\ \E choice \in Choices(epsilon) : \E q \in MaxQValues :
        episodeMaxQs' = IF choice = "greedy" THEN Append(episodeMaxQs, q)
                        ELSE episodeMaxQs
  /\ DoStep(Actions[actionIndex + 1])
  /\ IF thrown'
     THEN /\ pc' = Rejected
          /\ log' = log \cup {<<TrainingError, "">>}
          /\ UNCHANGED <<replayBuffer, step, pushes, broke>>
     ELSE IF last'.ret.done
     THEN /\ pc' = "end"
          /\ broke' = TRUE
          /\ UNCHANGED <<replayBuffer, step, pushes, log>>
     ELSE /\ replayBuffer' =
               Evict(Append(replayBuffer,
                            Transition(actionIndex, ClippedReward(last'.ret.reward),
                                       last'.ret.done)))
          /\ pushes' = pushes + 1
          /\ IF BatchReady(replayBuffer')
             THEN pc' = "learn" /\ UNCHANGED step
             ELSE Advance("step")
          /\ UNCHANGED <<broke, log>>
  /\ UNCHANGED <<trainingState, episode, epsilon, stopTraining, episodesRun>>
  /\ UNCHANGED <<patternVars, sampleVars>>
  /\ UNCHANGED auxVars
  /\ UNCHANGED <<episodeLosses, baseLearningRate, resumeModelPath, files, pending, run>>

\* The learning update on a sampled batch: tf.tensor4d raises on a batch that
\* does not hold BATCH_SIZE entries; otherwise each entry's priority is set to
\* its |TD error| and the loss is pushed.
LearnUpdate(batch) ==
  /\ IF Len(batch) # BATCH_SIZE
     THEN /\ pc' = Rejected
          /\ log' = log \cup {<<TrainingError, "">>}
          /\ UNCHANGED <<replayBuffer, step, episodeLosses>>
     ELSE /\ \E td \in [1..BATCH_SIZE -> TdErrors] :
               replayBuffer' = WritePriorities(replayBuffer, batch, td, 1)
          /\ \E batchLoss \in BatchLosses :
               episodeLosses' = Append(episodeLosses, batchLoss)
          /\ Advance("step")
          /\ UNCHANGED log
  /\ UNCHANGED <<trainingState, episode, epsilon, stopTraining, episodesRun,
                 pushes, broke>>
  /\ UNCHANGED <<gameVars, patternVars>>
  /\ UNCHANGED auxVars
  /\ UNCHANGED <<episodeMaxQs, baseLearningRate, resumeModelPath, files, pending, run>>

\* const batch = sampleEnhancedBatch(replayBuffer, BATCH_SIZE), and the update
Learn ==
  /\ pc = "learn"
  /\ \E batch \in SampleEnhancedBatch(replayBuffer, BATCH_SIZE) : LearnUpdate(batch)
  /\ UNCHANGED sampleVars

\* step < maxSteps fails: the step loop ends.  Nothing reads the episode's
\* Game instance from here on.
LoopExit ==
  /\ pc = "step"
  /\ step >= maxSteps
  /\ pc' = "end"
  /\ game' = Absent
  /\ last' = CallRecord("none", "")
  /\ calls' = 0
  /\ UNCHANGED <<thrown, resets>>
  /\ UNCHANGED <<trainingState, episode, epsilon, replayBuffer, step,
                 stopTraining, episodesRun, pushes, broke>>
  /\ UNCHANGED <<patternVars, sampleVars>>
  /\ UNCHANGED auxVars
  /\ UNCHANGED <<historyVars, ioVars>>

\* Fault: the test reads the episode counter as it was before episode++.
AutoSaveDueBefore(nextEpisode) == (nextEpisode - 1) % AutoSaveInterval = 0

\* if (episode % 200 === 0), after episode++
AutoSaveDue(nextEpisode) == nextEpisode % AutoSaveInterval = 0

\* The end of an episode: episode++, the rebuilt optimizer every
\* optimizerUpdateInterval episodes, the update of epsilon, the purge, and
\* every AutoSaveInterval episodes model.save(...) started and not awaited.
EndEpisode ==
  /\ pc = "end"
  /\ episode' = episode + 1
  /\ epsilon' \in EpsilonUpdate(epsilon, episode')
  /\ replayBuffer' = Purged(replayBuffer, episode')
  /\ pending' = IF AutoSaveDue(episode') THEN pending \cup {"auto"}
                ELSE pending
  /\ pc' = "wait"
  /\ UNCHANGED <<trainingState, step, stopTraining, episodesRun, pushes, broke>>
  /\ UNCHANGED <<gameVars, patternVars, sampleVars>>
  /\ learningRate' = IF episode' % optimizerUpdateInterval = 0
                     THEN LearningRateAt(baseLearningRate,
                                         episode' \div optimizerUpdateInterval)
                     ELSE learningRate
  /\ UNCHANGED <<layoutVars, snapVars, featVars>>
  /\ UNCHANGED <<historyVars, resumeModelPath, files, log, run>>

\* Fault: the stop flag is not read.
ContinueAlways ==
  /\ pc = "wait"
  /\ pc' = "episode"
  /\ UNCHANGED <<trainingState, episode, epsilon, replayBuffer, step,
                 stopTraining, episodesRun, pushes, broke>>
  /\ UNCHANGED <<gameVars, patternVars, sampleVars>>
  /\ UNCHANGED auxVars
  /\ UNCHANGED <<historyVars, ioVars>>

\* await setTimeout(10); if (stopTraining) break; and after the loop
\* await model.save(`file://${finalDir}`) is started
Continue ==
  /\ pc = "wait"
  /\ pc' = IF stopTraining THEN "saving" ELSE "episode"
  /\ UNCHANGED <<trainingState, episode, epsilon, replayBuffer, step,
                 stopTraining, episodesRun, pushes, broke>>
  /\ UNCHANGED <<gameVars, patternVars, sampleVars>>
  /\ UNCHANGED auxVars
  /\ UNCHANGED <<historyVars, ioVars>>

\* The final model.save resolved: saveTrainingState(finalState, ...) and
\* process.exit(0), which ends the saves still in flight.
Shutdown ==
  /\ pc = "saving"
  /\ \E o \in SaveTrainingState(files, log, StateToSave, FinalPath) :
        files' = o.files /\ log' = o.log
  /\ pending' = {}
  /\ pc' = "exit"
  /\ UNCHANGED <<trainingState, episode, epsilon, replayBuffer, step,
                 stopTraining, episodesRun, pushes, broke>>
  /\ UNCHANGED <<gameVars, patternVars, sampleVars>>
  /\ UNCHANGED auxVars
  /\ UNCHANGED <<historyVars, resumeModelPath, run>>

\* The final model.save rejected: nothing in train catches it.
ShutdownRejected ==
  /\ pc = "saving"
  /\ pc' = Rejected
  /\ log' = log \cup {<<TrainingError, "">>}
  /\ UNCHANGED <<trainingState, episode, epsilon, replayBuffer, step,
                 stopTraining, episodesRun, pushes, broke>>
  /\ UNCHANGED <<gameVars, patternVars, sampleVars>>
  /\ UNCHANGED auxVars
  /\ UNCHANGED <<historyVars, resumeModelPath, files, pending, run>>

\* train waits on a timer in the step loop: after a body whose step counter
\* is a multiple of YieldInterval (the counter has been advanced since).
AtYield == pc = "step" /\ step >= 1 /\ (step - 1) % YieldInterval = 0

\* The points at which a callback can run: the waits of train, and the time
\* after train's promise was rejected, the process being still alive.
AtAwait == pc \in {"wait", "saving", "failed"} \/ AtYield

\* path.join(snapshotDir, 'checkpoint.json')
SnapshotPath(kind) == IF kind = "auto" THEN AutoPath ELSE SignalPath

\* model.save(...).then(() => { saveTrainingState(stateToSave, ...) }) of a
\* snapshot: the object is built from the variables as they are by then.
SnapshotSaved(kind) ==
  /\ kind \in pending
  /\ AtAwait
  /\ \E o \in SaveTrainingState(files, log, StateToSave, SnapshotPath(kind)) :
        files' = o.files /\ log' = o.log
  /\ pending' = pending \ {kind}
  /\ UNCHANGED <<pc, trainingState, episode, epsilon, replayBuffer, step,
                 stopTraining, episodesRun, pushes, broke>>
  /\ UNCHANGED <<gameVars, patternVars, sampleVars>>
  /\ UNCHANGED auxVars
  /\ UNCHANGED <<historyVars, resumeModelPath, run>>

\* model.save(...).catch(err => console.error(...)) of a snapshot
SnapshotFailed(kind) ==
  /\ kind \in pending
  /\ AtAwait
  /\ log' = log \cup {<<IF kind = "auto" THEN AutoSnapshotError ELSE ModelSaveError, "">>}
  /\ pending' = pending \ {kind}
  /\ UNCHANGED <<pc, trainingState, episode, epsilon, replayBuffer, step,
                 stopTraining, episodesRun, pushes, broke>>
  /\ UNCHANGED <<gameVars, patternVars, sampleVars>>
  /\ UNCHANGED auxVars
  /\ UNCHANGED <<historyVars, resumeModelPath, files, run>>

\* The stdin handler on ENTER.  It runs while train waits on a timer: at the
\* end of an episode, and in the step loop after a body whose step counter is
\* a multiple of YieldInterval (the counter has been advanced since).
StopSignal ==
  /\ \/ pc = "wait"
     \/ pc = "step" /\ step >= 1 /\ (step - 1) % YieldInterval = 0
  /\ ~stopTraining
  /\ stopTraining' = TRUE
  /\ UNCHANGED <<pc, trainingState, episode, epsilon, replayBuffer, step,
                 episodesRun, pushes, broke>>
  /\ UNCHANGED <<gameVars, patternVars, sampleVars>>
  /\ UNCHANGED auxVars
  /\ UNCHANGED <<historyVars, ioVars>>

NextTrain ==
  \/ Restore
  \/ StartEpisode
  \/ \E actionIndex \in 0..3 : TrainStep(actionIndex)
  \/ Learn
  \/ LoopExit
  \/ EndEpisode
  \/ Continue
  \/ Shutdown
  \/ ShutdownRejected
  \/ \E kind \in {"auto", "signal"} : SnapshotSaved(kind)
  \/ \E kind \in {"auto", "signal"} : SnapshotFailed(kind)
  \/ StopSignal

SpecTrain == InitTrain /\ [][NextTrain]_vars

\* train(null): no checkpoint is read, so episode stays far below
\* AutoSaveInterval and no snapshot is ever started.
InitFresh == InitTrain /\ ~trainingState.present

\* What train does itself, as opposed to what reaches it.
TrainProgress ==
  \/ Restore
  \/ StartEpisode
  \/ \E actionIndex \in 0..3 : TrainStep(actionIndex)
  \/ Learn
  \/ LoopExit
  \/ EndEpisode
  \/ Continue
  \/ Shutdown
  \/ ShutdownRejected

NextFresh == TrainProgress \/ StopSignal

\* The timers train waits on fire and the final model.save settles.
TimersFire == LoopExit \/ EndEpisode \/ Continue \/ Shutdown \/ ShutdownRejected

\* The body of the step loop is synchronous up to its end: where a body is
\* due (TrainStep or Learn is enabled exactly there) it runs, which moves pc
\* or step.
InBody == (pc = "step" /\ step < maxSteps) \/ pc = "learn"

BodyRuns == InBody /\ (pc' # pc \/ step' # step)

\* Weak fairness of the body, with its enabling condition written out.
BodyFair == []<>(~InBody) \/ []<><<BodyRuns>>_vars

FairTrain ==
  InitFresh /\ [][NextFresh]_vars /\ WF_vars(TimersFire) /\ BodyFair

----------------------------------------------------------------------------
(* train as a process: started with or without a resume path on a working   *)
(* directory that holds no checkpoint.json, one that does not parse, or one *)
(* an earlier run left; the 's' key among the signals; and a process        *)
(* started with a resume path after the first one has exited.               *)

\* What can be at 'checkpoint.json' in the working directory
CheckpointFiles ==
  {NoFile, [exists |-> TRUE, text |-> Malformed]}
    \cup {CheckpointFile(state) : state \in Checkpoints}

InitRun ==
  /\ pc = "load"
  /\ trainingState = NoCheckpoint
  /\ resumeModelPath \in BOOLEAN
  /\ \E file \in CheckpointFiles :
        files = [p \in Paths |-> IF p = CheckpointPath THEN file ELSE NoFile]
  /\ Defaults
  /\ run = 1
  /\ NoGame
  /\ NoPattern
  /\ NoSample
  /\ NoLayout
  /\ NoSnapshot
  /\ NoFeature

\* let trainingState = null;
\* if (resumeModelPath) { ...; trainingState = loadTrainingState(checkpointPath) }
LoadState ==
  /\ pc = "load"
  /\ LET loaded == LoadTrainingState(files, log, CheckpointPath)
     IN  /\ trainingState' = IF resumeModelPath THEN loaded.state ELSE NoCheckpoint
         /\ log' = IF resumeModelPath THEN loaded.log ELSE log
  /\ pc' = "restore"
  /\ UNCHANGED <<episode, epsilon, replayBuffer, step, stopTraining,
                 episodesRun, pushes, broke>>
  /\ UNCHANGED <<gameVars, patternVars, sampleVars>>
  /\ UNCHANGED auxVars
  /\ UNCHANGED <<historyVars, resumeModelPath, files, pending, run>>

\* The episodes followed: MaxRunEpisodes of the first process, and
\* MaxResumedEpisodes of a process started after it.
RunEpisode ==
  /\ episodesRun < (IF run = 1 THEN MaxRunEpisodes ELSE MaxResumedEpisodes)
  /\ StartEpisode

\* The stdin handler on 's': model.save(`file://${snapshotDir}`) is started
\* there and then.  The handler runs while train waits.
SaveSignal ==
  /\ AtAwait
  /\ "signal" \notin pending
  /\ pending' = pending \cup {"signal"}
  /\ UNCHANGED <<pc, trainingState, episode, epsilon, replayBuffer, step,
                 stopTraining, episodesRun, pushes, broke>>
  /\ UNCHANGED <<gameVars, patternVars, sampleVars>>
  /\ UNCHANGED auxVars
  /\ UNCHANGED <<historyVars, resumeModelPath, files, log, run>>

\* node index.js --train <path>, once the process before it has exited: the
\* files are what that process left, everything else starts over.
NewProcess ==
  /\ pc = "exit"
  /\ run < MaxRuns
  /\ run' = run + 1
  /\ pc' = "load"
  /\ trainingState' = NoCheckpoint
  /\ resumeModelPath' = TRUE
  /\ episode' = 1
  /\ epsilon' = One
  /\ replayBuffer' = <<>>
  /\ episodeLosses' = <<>>
  /\ episodeMaxQs' = <<>>
  /\ baseLearningRate' = DefaultLearningRate
  /\ step' = 0
  /\ stopTraining' = FALSE
  /\ episodesRun' = 0
  /\ pushes' = 0
  /\ broke' = FALSE
  /\ pending' = {}
  /\ log' = {}
  /\ game' = Absent
  /\ thrown' = FALSE
  /\ last' = CallRecord("none", "")
  /\ calls' = 0
  /\ resets' = 0
  /\ UNCHANGED files
  /\ UNCHANGED <<patternVars, sampleVars>>
  /\ learningRate' = DefaultLearningRate
  /\ UNCHANGED <<layoutVars, snapVars, featVars>>

NextRun ==
  \/ LoadState
  \/ Restore
  \/ RunEpisode
  \/ \E actionIndex \in 0..3 : TrainStep(actionIndex)
  \/ Learn
  \/ LoopExit
  \/ EndEpisode
  \/ Continue
  \/ Shutdown
  \/ ShutdownRejected
  \/ \E kind \in {"auto", "signal"} : SnapshotSaved(kind)
  \/ \E kind \in {"auto", "signal"} : SnapshotFailed(kind)
  \/ StopSignal
  \/ SaveSignal
  \/ NewProcess

SpecRun == InitRun /\ [][NextRun]_vars

----------------------------------------------------------------------------
(* The episode counter and the exploration rate along a run of train: they  *)
(* are written by the restore and by the end of each episode only.           *)

InitEps ==
  /\ \E ts \in Checkpoints \cup {NoCheckpoint} :
        /\ trainingState = ts
        /\ episode = (IF ts.present THEN ts.episode ELSE 1)
        /\ epsilon = ClampEpsilon(IF ts.present THEN ts.epsilon ELSE One)
        /\ replayBuffer = <<>>
  /\ pc = "end"
  /\ step = 0
  /\ stopTraining = FALSE
  /\ episodesRun = 0
  /\ pushes = 0
  /\ broke = FALSE
  /\ NoHistory
  /\ NoIo
  /\ NoGame
  /\ NoPattern
  /\ NoSample
  /\ NoAux

\* episode++ and the update of epsilon
EpisodeEnds ==
  /\ episode < MaxEpsEpisodes
  /\ episode' = episode + 1
  /\ epsilon' \in EpsilonUpdate(epsilon, episode')
  /\ UNCHANGED <<pc, trainingState, replayBuffer, step, stopTraining,
                 episodesRun, pushes, broke>>
  /\ UNCHANGED <<gameVars, patternVars, sampleVars>>
  /\ UNCHANGED auxVars
  /\ UNCHANGED <<historyVars, ioVars>>

NextEps == EpisodeEnds

SpecEps == InitEps /\ [][NextEps]_vars

----------------------------------------------------------------------------
(* saveTrainingState followed by loadTrainingState, on their own: a         *)
(* training state is handed to the first, and the second reads the same     *)
(* location.                                                                 *)

\* Feature vectors { grid, offset }: a grid of one row of two one-hot cells.
Features ==
  { [grid |-> << << <<0, 1>>, <<1, 0>> >> >>, offset |-> <<25, -50>>],
    [grid |-> << << <<1, 0>>, <<1, 0>> >> >>, offset |-> <<0, 125>>] }

\* Transitions as train pushes them, with and without a priority.
JsonTransitions ==
  { [state |-> f, action |-> 0, reward |-> -355, nextState |-> f, done |-> FALSE,
     priority |-> 355] : f \in Features }
  \cup
  { [state |-> f, action |-> 3, reward |-> 105, nextState |-> g, done |-> TRUE,
     priority |-> NoPriority] : f \in Features, g \in Features }

JsonBuffers == UNION {[1..n -> JsonTransitions] : n \in 0..MaxJsonLen}

InitJson ==
  /\ pc = "toSave"
  /\ episode \in {1, 1200}
  /\ epsilon \in {One, 123456}
  /\ replayBuffer \in JsonBuffers
  /\ episodeLosses \in {<<>>, <<40, 0>>}
  /\ episodeMaxQs \in {<<>>, <<-12>>}
  /\ baseLearningRate \in {1000, 980}
  /\ trainingState = NoCheckpoint
  /\ step = 0
  /\ stopTraining = FALSE
  /\ episodesRun = 0
  /\ pushes = 0
  /\ broke = FALSE
  /\ NoIo
  /\ NoGame
  /\ NoPattern
  /\ NoSample
  /\ NoAux

\* saveTrainingState(state, path)
CallSave(path) ==
  /\ pc = "toSave"
  /\ \E o \in SaveTrainingState(files, log, StateToSave, path) :
        files' = o.files /\ log' = o.log
  /\ last' = CallRecord("saveTrainingState", path)
  /\ pc' = "toLoad"
  /\ UNCHANGED <<game, thrown, calls, resets>>
  /\ UNCHANGED <<trainingState, episode, epsilon, replayBuffer, step, stopTraining,
                 episodesRun, pushes, broke, historyVars, resumeModelPath, pending, run>>
  /\ UNCHANGED <<patternVars, sampleVars, auxVars>>

\* loadTrainingState(path), for the path of the save
CallLoad ==
  /\ pc = "toLoad"
  /\ LET r == LoadTrainingState(files, log, last.arg)
     IN  trainingState' = r.state /\ log' = r.log
  /\ pc' = "loaded"
  /\ UNCHANGED <<episode, epsilon, replayBuffer, step, stopTraining,
                 episodesRun, pushes, broke, historyVars, resumeModelPath, files,
                 pending, run>>
  /\ UNCHANGED <<gameVars, patternVars, sampleVars, auxVars>>

NextJson ==
  \/ \E path \in Paths : CallSave(path)
  \/ CallLoad

SpecJson == InitJson /\ [][NextJson]_vars

----------------------------------------------------------------------------
(* The end of an episode on its own: the episode counter around the         *)
(* multiples of the purge, auto-save and exploration intervals, and a       *)
(* replay buffer whose entries are all different.                           *)

\* The transitions of a buffer of n entries, the oldest first
NumberedBuffer(n) == [k \in 1..n |-> Transition(k % 4, 100 + k, FALSE)]

\* Episode counters before the increment
PurgeEpisodes ==
  {1, PurgeInterval - 1, PurgeInterval, 2 * PurgeInterval - 1,
   explorationCycleLength - 1, 3 * PurgeInterval - 1}

InitPurge ==
  /\ pc = "end"
  /\ episode \in PurgeEpisodes
  /\ epsilon \in {One, 300000}
  /\ replayBuffer \in {NumberedBuffer(n) : n \in 0..MaxPurgeLen}
  /\ episodeLosses = <<>>
  /\ episodeMaxQs = <<>>
  /\ baseLearningRate = DefaultLearningRate
  /\ trainingState = NoCheckpoint
  /\ step = maxSteps
  /\ stopTraining = FALSE
  /\ episodesRun = 1
  /\ pushes = 0
  /\ broke = FALSE
  /\ NoIo
  /\ NoGame
  /\ NoPattern
  /\ NoSample
  /\ NoAux

NextPurge == EndEpisode

SpecPurge == InitPurge /\ [][NextPurge]_vars

----------------------------------------------------------------------------
(* The learning update on its own: a replay buffer of whole transitions that *)
(* holds at least BATCH_SIZE of them, the batch that was sampled kept.       *)

LearnBuffers ==
  UNION {[1..n -> JsonTransitions] : n \in BATCH_SIZE..REPLAY_BUFFER_SIZE}

InitLearn ==
  /\ pc = "learn"
  /\ replayBuffer \in LearnBuffers
  /\ episode = 1
  /\ epsilon = One
  /\ episodeLosses = <<>>
  /\ episodeMaxQs = <<>>
  /\ baseLearningRate = DefaultLearningRate
  /\ trainingState = NoCheckpoint
  /\ step = 0
  /\ stopTraining = FALSE
  /\ episodesRun = 1
  /\ pushes = 0
  /\ broke = FALSE
  /\ NoIo
  /\ NoGame
  /\ NoPattern
  /\ NoSample
  /\ NoAux

\* The update, with the batch sampleEnhancedBatch returned for it
LearnSampled ==
  /\ pc = "learn"
  /\ \E batch \in SampleEnhancedBatch(replayBuffer, BATCH_SIZE) :
        /\ LearnUpdate(batch)
        /\ sampleBatch' = batch
  /\ sampleBuffer' = replayBuffer
  /\ sampleSize' = BATCH_SIZE
  /\ sampled' = TRUE

NextLearn == LearnSampled

SpecLearn == InitLearn /\ [][NextLearn]_vars

----------------------------------------------------------------------------
(* The obstacle list on its own: the constructor builds it for a board, and *)
(* setObstaclePattern replaces it.                                           *)

LayoutBoards == {[w |-> w, h |-> h] : w \in 1..MaxWidth, h \in 1..MaxHeight}

\* The constructor's this.obstacles
ConstructorLayout(board) ==
  [width |-> board.w, height |-> board.h, via |-> "new",
   obstacles |-> DedupByKey(CrossObstacles(board.w, board.h))]

InitLayout ==
  /\ layout \in {ConstructorLayout(board) : board \in LayoutBoards}
  /\ NoSnapshot
  /\ NoOptimizer
  /\ NoFeature
  /\ NoGame
  /\ NoPattern
  /\ NoSample
  /\ NoTrain

\* setObstaclePattern(pattern): this.obstacles = obstacles
SetLayoutPattern(pattern) ==
  /\ layout' = [layout EXCEPT
                  !.via = pattern,
                  !.obstacles = PatternObstacles(pattern, layout.width, layout.height)]
  /\ UNCHANGED <<gameVars, patternVars, sampleVars, trainVars, snapVars, optVars, featVars>>

NextLayout == \E pattern \in PatternNames : SetLayoutPattern(pattern)

SpecLayout == InitLayout /\ [][NextLayout]_vars

----------------------------------------------------------------------------
(* getState and the objects it hands out.  A field of the returned object   *)
(* is either a copy or the Game's own object; a write through either handle *)
(* of a shared object is seen through the other, until the Game assigns a   *)
(* new object to its field.                                                  *)

StateFields ==
  {"player", "food", "redBlocks", "greenBlocks", "obstacles", "tickCount", "score"}

\* getState: { ...this.player }, { ...this.food }, map(rb => ({ ...rb })) are
\* copies; obstacles: this.obstacles is the Game's array itself.
SharedByGetState == {"obstacles"}

\* The fields whose object an operation writes into: movePlayer sets
\* this.player.x and .y, checkCollisions and spawnBonusPair splice and push
\* the block arrays.
WrittenInPlace(op) ==
  IF op = "step" THEN {"player", "redBlocks", "greenBlocks"} ELSE {}

\* The fields an operation assigns a new object to.
Replaced(op) ==
  CASE op = "step"  -> {"food"}
    [] op = "reset" -> {"player", "food", "redBlocks", "greenBlocks"}
    [] op = "setObstaclePattern" -> {"obstacles"}
    [] OTHER -> {}

\* What a snapshot holds after the operation op took the Game to g.
Carried(snap, op, g) ==
  LET seen(f) == f \in snap.shared /\ f \in WrittenInPlace(op)
      now == GetState(g)
  IN  [snap EXCEPT
         !.state = [player      |-> IF seen("player") THEN now.player ELSE @.player,
                    food        |-> IF seen("food") THEN now.food ELSE @.food,
                    redBlocks   |-> IF seen("redBlocks") THEN now.redBlocks ELSE @.redBlocks,
                    greenBlocks |-> IF seen("greenBlocks") THEN now.greenBlocks
                                    ELSE @.greenBlocks,
                    obstacles   |-> IF seen("obstacles") THEN now.obstacles ELSE @.obstacles,
                    tickCount   |-> @.tickCount,
                    score       |-> @.score],
         !.shared = @ \ Replaced(op)]

\* A caller's write into field f of a snapshot: a position is set to (0, 0),
\* an array loses its last entry or, when empty, gains one, a number is
\* incremented.
Written(st, f) ==
  LET arr(a) == IF Len(a) > 0 THEN SubSeq(a, 1, Len(a) - 1) ELSE <<Pos(0, 0)>>
  IN  CASE f = "player"      -> [st EXCEPT !.player = Pos(0, 0)]
        [] f = "food"        -> [st EXCEPT !.food = Pos(0, 0)]
        [] f = "redBlocks"   -> [st EXCEPT !.redBlocks = arr(@)]
        [] f = "greenBlocks" -> [st EXCEPT !.greenBlocks = arr(@)]
        [] f = "obstacles"   -> [st EXCEPT !.obstacles = arr(@)]
        [] f = "tickCount"   -> [st EXCEPT !.tickCount = @ + 1]
        [] f = "score"       -> [st EXCEPT !.score = @ + 1]

\* The Game after a write into field f of an object it shares with a snapshot.
WrittenThrough(g, f) ==
  LET st == Written(GetState(g), f)
  IN  [g EXCEPT !.player = st.player, !.food = st.food,
                !.redBlocks = st.redBlocks, !.greenBlocks = st.greenBlocks,
                !.obstacles = st.obstacles]

InitSnapshot ==
  /\ game \in FreshGames
  /\ thrown = FALSE
  /\ last = CallRecord("new", "")
  /\ calls = 0
  /\ resets = 0
  /\ NoSnapshot
  /\ NoLayout
  /\ NoOptimizer
  /\ NoFeature
  /\ NoPattern
  /\ NoSample
  /\ NoTrain

SnapStep(action) ==
  /\ ~thrown /\ calls < MaxSnapCalls
  /\ DoStep(action)
  /\ snapshot' = Carried(snapshot, "step", game')
  /\ UNCHANGED <<patternVars, sampleVars, trainVars, layoutVars, optVars, featVars>>

SnapReset ==
  /\ ~thrown /\ calls < MaxSnapCalls
  /\ DoReset
  /\ snapshot' = Carried(snapshot, "reset", game')
  /\ UNCHANGED <<patternVars, sampleVars, trainVars, layoutVars, optVars, featVars>>

SnapSetObstaclePattern(pattern) ==
  /\ ~thrown /\ calls < MaxSnapCalls
  /\ game' = WithObstaclePattern(game, pattern)
  /\ last' = CallRecord("setObstaclePattern", pattern)
  /\ calls' = calls + 1
  /\ snapshot' = Carried(snapshot, "setObstaclePattern", game')
  /\ UNCHANGED <<thrown, resets>>
  /\ UNCHANGED <<patternVars, sampleVars, trainVars, layoutVars, optVars, featVars>>

\* const s = game.getState()
TakeSnapshot ==
  /\ ~thrown /\ ~snapshot.taken
  /\ snapshot' = [taken |-> TRUE, tampered |-> FALSE, shared |-> SharedByGetState,
                  state |-> GetState(game)]
  /\ UNCHANGED <<gameVars, patternVars, sampleVars, trainVars, layoutVars, optVars, featVars>>

\* The caller writes into field f of the object it was handed.
Tamper(f) ==
  /\ snapshot.taken /\ ~snapshot.tampered
  /\ snapshot' = [snapshot EXCEPT !.tampered = TRUE, !.state = Written(@, f)]
  /\ game' = IF f \in snapshot.shared THEN WrittenThrough(game, f) ELSE game
  /\ UNCHANGED <<thrown, last, calls, resets>>
  /\ UNCHANGED <<patternVars, sampleVars, trainVars, layoutVars, optVars, featVars>>

NextSnapshot ==
  \/ \E action \in ActionStrings : SnapStep(action)
  \/ SnapReset
  \/ \E pattern \in PatternNames : SnapSetObstaclePattern(pattern)
  \/ TakeSnapshot
  \/ \E f \in StateFields : Tamper(f)

SpecSnapshot == InitSnapshot /\ [][NextSnapshot]_vars

----------------------------------------------------------------------------
(* Properties of the environment. *)

OnObstacle(g, p) == Some(g.obstacles, p.x, p.y)

InBounds(g, p) == IsWithinBounds(g, p.x, p.y)

\* The player, the food, the red blocks and the green blocks, one after the other.
Entities(g) == <<g.player, g.food>> \o g.redBlocks \o g.greenBlocks

PairwiseDistinct(arr) ==
  \A i, j \in 1..Len(arr) : i # j => arr[i] # arr[j]

\* The cell one step from p in a direction.
Neighbour(p, direction) ==
  CASE direction = "up"    -> Pos(p.x, p.y - 1)
    [] direction = "down"  -> Pos(p.x, p.y + 1)
    [] direction = "left"  -> Pos(p.x - 1, p.y)
    [] direction = "right" -> Pos(p.x + 1, p.y)
    [] OTHER               -> p

\* C1: after construction and after any sequence of reset, step and
\* setObstaclePattern calls that returned, the player, the food and every red
\* and green block are on pairwise distinct cells of the board, none of them
\* an obstacle cell.
C1_EntitiesApart ==
  ~thrown =>
    /\ PairwiseDistinct(Entities(game))
    /\ \A i \in 1..Len(Entities(game)) :
          /\ InBounds(game, Entities(game)[i])
          /\ ~OnObstacle(game, Entities(game)[i])

\* C2: after every step(action) the player is where it was or on the
\* neighbouring cell in the requested direction, on the board and not on an
\* obstacle.
C2_StepKeepsPlayerLegal ==
  last.op = "step" =>
    /\ game.player \in {last.old, Neighbour(last.old, last.arg)}
    /\ InBounds(game, game.player)
    /\ ~OnObstacle(game, game.player)

\* C3: after construction and after every reset that returned, the player and
\* the food are on the board, on two distinct cells, neither of them an
\* obstacle of the pattern in force.
C3_ResetPlacesApart ==
  (last.op \in {"new", "reset"} /\ ~thrown) =>
    /\ InBounds(game, game.player) /\ InBounds(game, game.food)
    /\ game.player # game.food
    /\ ~OnObstacle(game, game.player) /\ ~OnObstacle(game, game.food)

\* A reset under another pattern than the constructor's, which put the player
\* on a cell the cross covers.
C3_Witness ==
  /\ last.op = "reset" /\ ~thrown
  /\ game.obstacles = PatternObstacles("none", game.width, game.height)
  /\ Some(CrossObstacles(game.width, game.height), game.player.x, game.player.y)

\* C5: a step that moved the player onto the food's cell and returned has
\* added exactly 40 to the score for the pickup, has incremented the food
\* counter by one and has put the food on a free cell of the board that is not
\* the cell the food was on.
C5_FoodPickup ==
  (last.op = "step" /\ ~thrown /\ game.player = last.oldFood
     /\ last.old # last.oldFood) =>
    /\ game.score = last.shaped + 400
    /\ last.ret.reward = last.shaped + 400 - last.previousScore
    /\ game.foodEaten = last.oldFoodEaten + 1
    /\ game.food # last.oldFood
    /\ InBounds(game, game.food)
    /\ ~OnObstacle(game, game.food)
    /\ game.food \notin
         ({game.player} \cup Elements(game.redBlocks) \cup Elements(game.greenBlocks))

\* A step that picked the food up.
C5_Witness ==
  /\ last.op = "step" /\ ~thrown
  /\ game.player = last.oldFood /\ last.old # last.oldFood
  /\ game.foodEaten = 1

\* C6: when the history holds at least 10 actions and the last 10 are neither
\* all the same nor strictly alternating between exactly two values, step
\* subtracts 0.5 exactly when one action value makes up at least 8 of the
\* last 10.
C6_DominantPenalty ==
  (Len(moveHistory) >= 10
     /\ LET last10 == LastN(moveHistory, 10)
        IN  /\ Cardinality(UniqueMoves(last10)) # 1
            /\ ~(Cardinality(UniqueMoves(last10)) = 2 /\ Alternates(last10))) =>
    ("dominant" \in penalties
       <=> \E m \in Moves : CountSame(LastN(moveHistory, 10), m) >= 8)

\* C8: sampleEnhancedBatch(buffer, n) returns exactly n entries whenever the
\* buffer holds at least n, for every n and all non-negative priorities, and
\* returns the whole buffer content, leaving the buffer as it was, when the
\* buffer holds fewer than n.
C8_SampleSize ==
  [][(~sampled /\ sampled') =>
       /\ sampleBuffer' = sampleBuffer
       /\ IF Len(sampleBuffer) >= sampleSize
          THEN Len(sampleBatch') = sampleSize
          ELSE sampleBatch' = [i \in 1..Len(sampleBuffer) |-> i]]_vars

----------------------------------------------------------------------------
(* Properties of train. *)

\* C4: step always returns done = false, so every transition in the replay
\* buffer has done = false and the step loop is never left through
\* "if (done) break".
C4_NeverDone ==
  /\ (last.op = "step" /\ ~thrown) => last.ret.done = FALSE
  /\ \A i \in 1..Len(replayBuffer) : replayBuffer[i].done = FALSE
  /\ ~broke

\* An episode whose steps were taken and pushed.
C4_Witness ==
  /\ pc = "step" /\ step = maxSteps
  /\ last.op = "step" /\ pushes >= 1

\* C7: after every push the replay buffer holds at most REPLAY_BUFFER_SIZE
\* transitions: the old buffer followed by the pushed transition, without
\* exactly its oldest entries in excess of the capacity.
C7_BufferCapacity ==
  [][pushes' = pushes + 1 =>
       /\ Len(replayBuffer') >= 1
       /\ Len(replayBuffer') <= REPLAY_BUFFER_SIZE
       /\ LET full == Append(replayBuffer, replayBuffer'[Len(replayBuffer')])
          IN  replayBuffer' = LastN(full, Min(Len(full), REPLAY_BUFFER_SIZE))]_vars

\* A push onto a full buffer.
C7_Witness ==
  /\ pushes >= 1
  /\ Len(trainingState.replayBuffer) + pushes > REPLAY_BUFFER_SIZE
  /\ Len(replayBuffer) = REPLAY_BUFFER_SIZE

\* C9: the end of every episode leaves epsilon >= epsilonMin; a decay that
\* would take it under epsilonMin sets it to epsilonBoost (0.2); from 1.0 one
\* episode without boost leaves 0.999.
C9_EpsilonFloor ==
  [][episode' = episode + 1 =>
       /\ epsilon' >= epsilonMin
       /\ (episode' % explorationCycleLength # 0 /\ Decayed(epsilon) < epsilonMin)
             => epsilon' = epsilonBoost
       /\ (episode' % explorationCycleLength # 0 /\ epsilon = One)
             => epsilon' = 999000]_vars

\* The rate after a decay that went under epsilonMin.
C9_Witness ==
  /\ epsilon = epsilonBoost
  /\ episode % explorationCycleLength # 0
  /\ episode > 2 * explorationCycleLength

\* C10: when train starts or resumes, the exploration rate of the first
\* episode is at least 1.0, a checkpointed rate under 1.0 having been replaced
\* by 1.0; the episode counter and the replay buffer are the checkpoint's.
C10_ResumeClamp ==
  /\ ((pc = "episode" /\ episodesRun = 0)
        \/ (pc \in {"step", "learn", "end"} /\ episodesRun = 1)) =>
       /\ epsilon >= One
       /\ (trainingState.present /\ trainingState.epsilon < One) => epsilon = One
  /\ (pc = "episode" /\ episodesRun = 0 /\ trainingState.present) =>
       /\ episode = trainingState.episode
       /\ replayBuffer = trainingState.replayBuffer

\* The first episode of a run resumed from a checkpoint whose rate is under 1.0.
C10_Witness ==
  /\ pc = "step" /\ episodesRun = 1
  /\ trainingState.present /\ trainingState.epsilon < One
  /\ Len(replayBuffer) > 0

\* The cells an obstacle list covers.
Cells(arr) == {PosKey(arr[i].x, arr[i].y) : i \in 1..Len(arr)}

NormalOn20x15 ==
  layout.width = 20 /\ layout.height = 15 /\ layout.via \in {"new", "normal"}

\* C13: on a 20 x 15 board the normal pattern, as the constructor builds it and
\* as setObstaclePattern('normal') builds it, covers exactly
\* 9*3 + 9*3 - 3*3 = 45 cells.
C13_CrossCells == NormalOn20x15 => Cardinality(Cells(layout.obstacles)) = 45

\* setObstaclePattern('normal') has built the cross on the 20 x 15 board.
C13_Witness == NormalOn20x15 /\ layout.via = "normal"

\* C13 as stated: the normal pattern on a 20 x 15 board covers 69 cells.
C13_AsStated == NormalOn20x15 => Cardinality(Cells(layout.obstacles)) = 69

\* C20: a snapshot getState returned is not changed by any later operation of
\* the environment, and a write into the snapshot, its obstacle list
\* included, does not change the environment.
C20_SnapshotIsolated ==
  [][ /\ (snapshot.taken /\ snapshot'.tampered = snapshot.tampered)
          => snapshot'.state = snapshot.state
      /\ (snapshot'.tampered # snapshot.tampered) => game' = game ]_vars

C16_FinalSnapshot ==
  [][ /\ (pc' = "exit" /\ pc # "exit") =>
            /\ pc = "saving"
            /\ (<<SaveError, FinalPath>> \notin log') =>
                  /\ files'[FinalPath].exists
                  /\ LET saved == Parse(files'[FinalPath].text)
                     IN  /\ saved.episode = episode
                         /\ saved.epsilon = epsilon
                         /\ saved.replayBuffer = replayBuffer
                         /\ saved.episodeLosses = episodeLosses
                         /\ saved.episodeMaxQs = episodeMaxQs
                         /\ saved.baseLearningRate = baseLearningRate
      /\ (pc = "saving") =>
            UNCHANGED <<episode, epsilon, replayBuffer, episodeLosses, episodeMaxQs,
                        baseLearningRate>> ]_vars

\* The process has exited after writing a checkpoint with a transition and a
\* loss of this run.
C16_Witness ==
  /\ pc = "exit" /\ <<SaveError, FinalPath>> \notin log
  /\ files[FinalPath].exists
  /\ pushes >= 1 /\ Len(episodeLosses) > Len(trainingState.episodeLosses)

\* C19: when a placement finds no free cell, in the constructor or in a step,
\* the exception leaves train: train is rejected with the error printed by
\* its caller, and from then on no episode is started, no step is taken and
\* the Game is not touched.
C19_BoardFullPropagates ==
  [][ /\ (thrown' /\ ~thrown) => (pc' = "failed" /\ <<TrainingError, "">> \in log')
      /\ thrown => /\ pc' = "failed"
                   /\ UNCHANGED <<game, episode, episodesRun, step, replayBuffer>> ]_vars

\* A step of an episode raised.
C19_Witness == thrown /\ pc = "failed" /\ last.op = "step"

\* C12: a process started with a resume path after a run has shut down starts
\* from the checkpoint that run's final save wrote.
C12_ResumeReadsShutdown ==
  (run = 2 /\ pc = "restore" /\ files[FinalPath].exists)
     => trainingState = Parse(files[FinalPath].text)

\* The step loop has been entered and not left.
InStepLoop == pc \in {"step", "learn"}

\* C15: in response to the 's' key no model.save is started, and no training
\* state is written, while the step loop of an episode is in progress.
C15_SignalsAtBoundaries ==
  [][ /\ ("signal" \in pending' /\ "signal" \notin pending) => ~InStepLoop
      /\ ("signal" \in pending /\ "signal" \notin pending' /\ files' # files)
            => ~InStepLoop ]_vars

\* The messages under which a failed save is printed
SaveErrors == {SaveError, AutoSnapshotError, ModelSaveError}

\* C17: a save that fails is printed as a save error and leaves train where
\* it is (or at its exit, for the final write); no failure of a save rejects
\* train.
C17_SaveFailureContained ==
  [][ /\ (pc = "saving") => (pc' # "failed")
      /\ (\E e \in log' \ log : e[1] \in SaveErrors) => (pc' = pc \/ pc' = "exit") ]_vars

\* fs.existsSync('checkpoint.json') is false, or JSON.parse raises on it.
Unreadable ==
  ~files[CheckpointPath].exists \/ files[CheckpointPath].text = Malformed

\* What train starts its first episode with when there is no checkpoint
StartsFresh ==
  /\ episode' = 1
  /\ epsilon' = One
  /\ replayBuffer' = <<>>
  /\ episodeLosses' = <<>>
  /\ episodeMaxQs' = <<>>
  /\ baseLearningRate' = DefaultLearningRate

\* C18: with a resume path and a checkpoint file that is missing or does not
\* parse, the load returns null without raising, and the restore leaves what
\* it leaves when no resume path is given: episode 1, epsilon 1.0, an empty
\* replay buffer, empty histories, the default learning rate.
C18_ReadFailureIsFresh ==
  [][ /\ (pc = "load" /\ resumeModelPath /\ Unreadable)
            => (pc' = "restore" /\ trainingState' = NoCheckpoint)
      /\ (pc = "restore" /\ resumeModelPath /\ Unreadable)
            => (pc' = "episode" /\ StartsFresh)
      /\ (pc = "restore" /\ ~resumeModelPath)
            => (pc' = "episode" /\ StartsFresh) ]_vars

\* A resumed run whose checkpoint did not parse is in its first episode.
C18_Witness ==
  /\ resumeModelPath /\ files[CheckpointPath].exists
  /\ files[CheckpointPath].text = Malformed
  /\ <<LoadError, CheckpointPath>> \in log
  /\ pc = "step" /\ episode = 1 /\ epsilon = One /\ episodesRun = 1

\* C21: a step whose action is none of the four directions leaves the player
\* where it was, and raises nothing of its own: the only exception such a
\* step can end with is the board-full one of the spawn its tick made.
C21_InvalidActionNoMove ==
  (last.op = "step" /\ last.arg \notin Directions) =>
    /\ game.player = last.old
    /\ "wall" \in last.applied
    /\ thrown => game.tickCount % TICK_SPAWN_INTERVAL = 0

\* step('jump') has returned, on a cell from which a move to the right was open.
C21_Witness ==
  /\ last.op = "step" /\ last.arg = "jump" /\ ~thrown
  /\ game.player = last.old
  /\ IsWithinBounds(game, last.old.x + 1, last.old.y)
  /\ ~Some(game.obstacles, last.old.x + 1, last.old.y)

\* C22: after construction and after any setObstaclePattern call, no position
\* appears more than once in the obstacle list.
C22_ObstaclesFormSet == PairwiseDistinct(layout.obstacles)

C24_UpdateWhenBatchFits ==
  [][ /\ (pushes' = pushes + 1)
            => ((pc' = "learn") <=> (Len(replayBuffer') >= BATCH_SIZE))
      /\ (pc' = "learn" /\ pc # "learn") => (pushes' = pushes + 1)
      /\ (pc = "learn") =>
            /\ Len(replayBuffer) >= BATCH_SIZE
            /\ pc' \in {"step", "failed"}
            /\ pc' = "step" =>
                  /\ Len(episodeLosses') = Len(episodeLosses) + 1
                  /\ step' = step + 1
      /\ (episodeLosses' # episodeLosses) => pc \in {"learn", "restore"} ]_vars

\* A fresh run's second push has filled the buffer to BATCH_SIZE: the update
\* is due, and the first push was followed by none.
C24_Witness ==
  /\ pc = "learn" /\ ~trainingState.present
  /\ pushes = BATCH_SIZE /\ Len(replayBuffer) = BATCH_SIZE /\ episodeLosses = <<>>

\* The buffer positions a batch refers to.
Sampled(batch) == {batch[i] : i \in 1..Len(batch)}

\* A transition without its priority.
Content(t) == [f \in DOMAIN t \ {"priority"} |-> t[f]]

\* C25: a learning update leaves the buffer's length and order, and in every
\* transition the state, action, reward, nextState and done; it leaves the
\* priority of every transition that is not in the sampled batch, and sets
\* the priority of every transition in the batch to a |TD error|, which is
\* not negative.
C25_OnlyBatchPriorities ==
  [][ (pc = "learn" /\ pc' = "step") =>
        /\ Len(replayBuffer') = Len(replayBuffer)
        /\ \A i \in 1..Len(replayBuffer) :
              /\ Content(replayBuffer'[i]) = Content(replayBuffer[i])
              /\ i \notin Sampled(sampleBatch')
                    => replayBuffer'[i].priority = replayBuffer[i].priority
              /\ i \in Sampled(sampleBatch')
                    => /\ replayBuffer'[i].priority \in TdErrors
                       /\ replayBuffer'[i].priority >= 0 ]_vars

\* An update whose batch left a transition out: that one has the priority it
\* had, one in the batch has a new one.
C25_Witness ==
  /\ sampled /\ pc = "step"
  /\ \E i, j \in 1..Len(replayBuffer) :
        /\ i \notin Sampled(sampleBatch) /\ j \in Sampled(sampleBatch)
        /\ replayBuffer[i] = sampleBuffer[i]
        /\ replayBuffer[j].priority # sampleBuffer[j].priority

\* Math.floor(0.2 * L)
Fifth(L) == (2 * L) \div 10

\* C26: the end of an episode purges exactly when the counter it has just
\* advanced is a multiple of 500 and the buffer is not empty; a purge of a
\* buffer of length L leaves its last L - floor(0.2 * L) entries in their
\* order; otherwise the buffer is left as it is.
C26_PurgeOldestFifth ==
  [][ (pc = "end" /\ pc' = "wait") =>
        LET L == Len(replayBuffer)
            due == episode' % 500 = 0 /\ L > 0
        IN  /\ episode' = episode + 1
            /\ due => /\ Len(replayBuffer') = L - Fifth(L)
                      /\ \A i \in 1..(L - Fifth(L)) :
                            replayBuffer'[i] = replayBuffer[i + Fifth(L)]
            /\ ~due => replayBuffer' = replayBuffer ]_vars

\* Episode 1000 has begun with the 9 newest of 11 transitions.
C26_Witness ==
  /\ pc = "wait" /\ episode = 2 * PurgeInterval
  /\ replayBuffer = SubSeq(NumberedBuffer(MaxPurgeLen), 3, MaxPurgeLen)
  /\ Len(replayBuffer) = MaxPurgeLen - 2

\* The amounts a boost can add: epsilonMin up to, not including, epsilonResetCycle
InBoostRange(amount) == amount >= epsilonMin /\ amount < epsilonResetCycle

\* C27: each end of an episode applies one of the two updates.  On a multiple
\* of explorationCycleLength the rate grows by an amount in [0.1, 0.2), with
\* no decay; otherwise the rate is multiplied by 0.999, the product being
\* replaced by 0.2 when it is under 0.1, and nothing is added.
C27_OneEpsilonUpdate ==
  [][ episode' = episode + 1 =>
        IF episode' % explorationCycleLength = 0
        THEN InBoostRange(epsilon' - epsilon)
        ELSE epsilon' = (IF (epsilon * 999) \div 1000 < epsilonMin
                         THEN epsilonBoost ELSE (epsilon * 999) \div 1000) ]_vars

\* The boost of episode 1200 in a fresh run.
C27_Witness ==
  /\ ~trainingState.present /\ episode = explorationCycleLength
  /\ epsilon >= 2 * epsilonMin

\* C27 as stated: off the cycle the rate is the old one times 0.999.
C27_AsStated ==
  [][ episode' = episode + 1 =>
        IF episode' % explorationCycleLength = 0
        THEN InBoostRange(epsilon' - epsilon)
        ELSE epsilon' = (epsilon * 999) \div 1000 ]_vars

\* C28: whenever a learning update is made, the learning rate of the
\* optimizer is baseLearningRate * 0.98^floor(episode / 200) for the episode
\* counter as it is then, in a fresh run and in a resumed one.
C28_LearningRateSchedule ==
  (pc = "learn") =>
    learningRate = LearningRateAt(baseLearningRate, episode \div optimizerUpdateInterval)


\* b is a with some of its elements removed, the others in their order
RECURSIVE KeptFrom(_, _)
KeptFrom(b, a) ==
  IF b = <<>> THEN TRUE
  ELSE IF a = <<>> THEN FALSE
  ELSE IF Head(b) = Head(a) THEN KeptFrom(Tail(b), Tail(a))
  ELSE KeptFrom(b, Tail(a))

\* arr without its last element
ButLast(arr) == SubSeq(arr, 1, Len(arr) - 1)

\* blocks' is blocks after removals, with one element appended at the end
OneAppended(before, after) ==
  /\ Len(after) >= 1
  /\ KeptFrom(ButLast(after), before)

\* C29: a step that returns advances the tick counter by exactly one; when
\* the new count is a multiple of the spawn interval it appends exactly one
\* red and one green block (after the removals of the pickups), and
\* otherwise it appends none; reset sets the counter to 0 and empties both
\* lists. So the counter is the number of steps since construction or reset
\* and at most floor(tickCount / interval) blocks of each colour are on the
\* board, that many pairs having been spawned.
C29_SpawnEveryInterval ==
  [][ /\ (calls' = calls + 1 /\ last'.op = "step" /\ ~thrown') =>
           /\ game'.tickCount = game.tickCount + 1
           /\ IF game'.tickCount % TICK_SPAWN_INTERVAL = 0
              THEN /\ OneAppended(game.redBlocks, game'.redBlocks)
                   /\ OneAppended(game.greenBlocks, game'.greenBlocks)
              ELSE /\ KeptFrom(game'.redBlocks, game.redBlocks)
                   /\ KeptFrom(game'.greenBlocks, game.greenBlocks)
      /\ (calls' = calls + 1 /\ last'.op = "reset" /\ ~thrown') =>
           /\ game'.tickCount = 0
           /\ game'.redBlocks = <<>>
           /\ game'.greenBlocks = <<>>
      /\ ~thrown' =>
           /\ game'.tickCount <= calls'
           /\ Len(game'.redBlocks) <= game'.tickCount \div TICK_SPAWN_INTERVAL
           /\ Len(game'.greenBlocks) <= game'.tickCount \div TICK_SPAWN_INTERVAL ]_vars

C29_Witness ==
  /\ last.op = "step" /\ ~thrown
  /\ resets = 0
  /\ game.tickCount = TICK_SPAWN_INTERVAL
  /\ calls = TICK_SPAWN_INTERVAL
  /\ Len(game.redBlocks) = 1
  /\ Len(game.greenBlocks) = 1


\* What the checkpoint of the periodic snapshot holds
AutoCheckpoint == LoadTrainingState(files, log, AutoPath).state

\* C30: the periodic snapshot is started exactly by the end of an episode
\* whose advanced counter is a multiple of 200, and that step writes no file
\* and goes on to the wait; its checkpoint is written later, at one of
\* train's waits, from the episode counter, exploration rate and replay
\* buffer as they are at that moment.
C30_AutoSaveNotAwaited ==
  [][ /\ ("auto" \in pending' /\ "auto" \notin pending) =>
           (pc = "end" /\ episode' = episode + 1 /\ episode' % AutoSaveInterval = 0)
      /\ (pc = "end" /\ episode' = episode + 1) =>
           /\ (episode' % AutoSaveInterval = 0) => "auto" \in pending'
           /\ (episode' % AutoSaveInterval # 0) => pending' = pending
           /\ files' = files
           /\ pc' = "wait"
      /\ (files'[AutoPath] # files[AutoPath]) =>
           /\ "auto" \in pending /\ "auto" \notin pending'
           /\ AtAwait
           /\ files'[AutoPath] = CheckpointFile(StateToSave)
           /\ UNCHANGED <<pc, episode, epsilon, replayBuffer>> ]_vars

\* The checkpoint of the snapshot started at episode 1200 holds the counter
\* of a later episode and a transition pushed after the snapshot was started.
C30_Witness ==
  /\ files[AutoPath].exists
  /\ "auto" \notin pending
  /\ AutoCheckpoint.present
  /\ AutoCheckpoint.episode % AutoSaveInterval # 0
  /\ AutoCheckpoint.episode > AutoSaveInterval
  /\ Len(AutoCheckpoint.replayBuffer) >= 1
  /\ AutoCheckpoint.epsilon = epsilon


\* The last call was a step that returned and left the player where it was.
MoveRejected == last.op = "step" /\ ~thrown /\ game.player = last.old

Contents(buf) == [i \in 1..Len(buf) |-> Content(buf[i])]

\* b is what is left of a after entries were dropped from its oldest end
IsSuffix(b, a) == \E k \in 0..Len(a) : b = SubSeq(a, k + 1, Len(a))

\* The transition train pushes for the step the environment just made
PushedBy(call) ==
  [action |-> CHOOSE i \in 0..3 : Actions[i + 1] = call.arg,
   reward |-> ClippedReward(call.ret.reward),
   done |-> call.ret.done]

C33_RedAtMostGreen ==
  ~thrown => Len(game.redBlocks) <= Len(game.greenBlocks)

\* Both kinds of pickup have happened since the last reset and blocks of
\* both colours are on the board, fewer red than green.
C33_Witness ==
  /\ ~thrown /\ resets = 0
  /\ game.greenBlocksEaten >= 1
  /\ game.redBlocksEaten >= 1
  /\ Len(game.redBlocks) >= 1
  /\ Len(game.redBlocks) < Len(game.greenBlocks)


\* The centre cell of the window the encoder builds for the instance
CentreCell == GetFeatureVector(GetState(game), game).grid[Half + 1][Half + 1]

\* C35: in every state of an instance on which no call raised, the centre
\* cell of the encoder's window is the player category (4).
C35_CentreIsPlayer ==
  ~thrown => CentreCell = OneHotEncode(4)

\* The step just made took the player onto a red block, which was picked up.
C35_Witness ==
  /\ last.op = "step" /\ ~thrown
  /\ game.player # last.old
  /\ game.redBlocksEaten >= 1
  /\ last.ret.reward < -150
  /\ CentreCell = OneHotEncode(4)


----------------------------------------------------------------------------
(* The step loop of one episode with the encodings its transitions carry:   *)
(* train from the restore to the end of MaxChainSteps steps.                *)

\* The transition train pushes, in full
FullTransition(feature, actionIndex, clippedReward, nextFeature, done) ==
  [state |-> feature, action |-> actionIndex, reward |-> clippedReward,
   nextState |-> nextFeature, done |-> done, priority |-> Abs(clippedReward)]

\* Fault: currentFeature keeps the encoding the episode started with.
KeepCurrentFeature(current, nextFeature) == current

\* currentFeature = nextFeature
NextCurrentFeature(current, nextFeature) == nextFeature

\* The environment an earlier episode started with, and the transition of its
\* first step, an 'up' rejected by the top edge: the encoding is unchanged,
\* the reward is -3.5 less the step penalty.
EarlierGame ==
  CHOOSE g \in FreshGames : g.player = WalkStart /\ g.food = Pos(0, 0)

EarlierTransition ==
  LET f == GetFeatureVector(GetState(EarlierGame), EarlierGame)
  IN  FullTransition(f, 0, -355, f, FALSE)

\* The checkpoint that run left after its episode.
ChainCheckpoint ==
  [present |-> TRUE, episode |-> 2, epsilon |-> 999000,
   replayBuffer |-> <<EarlierTransition>>,
   episodeLosses |-> <<>>, episodeMaxQs |-> <<>>, baseLearningRate |-> 1000]

InitChain ==
  /\ pc = "restore"
  /\ \E ts \in {ChainCheckpoint, NoCheckpoint} :
        /\ trainingState = ts
        /\ resumeModelPath = ts.present
        /\ files = [p \in Paths |->
                      IF p = CheckpointPath /\ ts.present THEN CheckpointFile(ts)
                      ELSE NoFile]
  /\ Defaults
  /\ run = 1
  /\ NoGame
  /\ NoPattern
  /\ NoSample
  /\ NoLayout
  /\ NoSnapshot
  /\ NoFeature

\* const game = new Game(); currentState = game.getState();
\* currentFeature = getFeatureVector(currentState, game)
ChainStart ==
  /\ pc = "episode"
  /\ episodesRun < 1
  /\ \E board \in Boards : \E o \in Constructed(board) :
        /\ game' = o.game
        /\ thrown' = o.thrown
        /\ pc' = IF o.thrown THEN Rejected ELSE "step"
        /\ log' = IF o.thrown THEN log \cup {<<TrainingError, "">>} ELSE log
        /\ currentFeature' = IF o.thrown THEN currentFeature
                             ELSE GetFeatureVector(GetState(o.game), o.game)
  /\ last' = CallRecord("new", "")
  /\ calls' = 0
  /\ resets' = 0
  /\ step' = 0
  /\ episodesRun' = episodesRun + 1
  /\ UNCHANGED <<trainingState, episode, epsilon, replayBuffer, stopTraining,
                 pushes, broke>>
  /\ UNCHANGED <<patternVars, sampleVars>>
  /\ UNCHANGED <<layoutVars, snapVars, optVars>>
  /\ UNCHANGED <<historyVars, resumeModelPath, files, pending, run>>

\* One pass of the step loop up to the learning update.  The assignment
\* currentFeature = nextFeature, which the code makes after the update, is
\* made here: the update reads neither of the two.
ChainStep(actionIndex) ==
  /\ pc = "step"
  /\ step < MaxChainSteps
  /\ \E choice \in Choices(epsilon) : \E q \in MaxQValues :
        episodeMaxQs' = IF choice = "greedy" THEN Append(episodeMaxQs, q)
                        ELSE episodeMaxQs
  /\ DoStep(Actions[actionIndex + 1])
  /\ IF thrown'
     THEN /\ pc' = Rejected
          /\ log' = log \cup {<<TrainingError, "">>}
          /\ UNCHANGED <<replayBuffer, step, pushes, broke, featVars>>
     ELSE IF last'.ret.done
     THEN /\ pc' = "end"
          /\ broke' = TRUE
          /\ UNCHANGED <<replayBuffer, step, pushes, log, featVars>>
     ELSE LET nextFeature == GetFeatureVector(GetState(game'), game')
          IN  /\ replayBuffer' =
                   Evict(Append(replayBuffer,
                                FullTransition(currentFeature, actionIndex,
                                               ClippedReward(last'.ret.reward),
                                               nextFeature, last'.ret.done)))
              /\ currentFeature' = NextCurrentFeature(currentFeature, nextFeature)
              /\ pushes' = pushes + 1
              /\ IF BatchReady(replayBuffer')
                 THEN pc' = "learn" /\ UNCHANGED step
                 ELSE Advance("step")
              /\ UNCHANGED <<broke, log>>
  /\ UNCHANGED <<trainingState, episode, epsilon, stopTraining, episodesRun>>
  /\ UNCHANGED <<patternVars, sampleVars>>
  /\ UNCHANGED <<layoutVars, snapVars, optVars>>
  /\ UNCHANGED <<episodeLosses, baseLearningRate, resumeModelPath, files, pending, run>>

NextChain ==
  \/ Restore
  \/ ChainStart
  \/ \E actionIndex \in 0..3 : ChainStep(actionIndex)
  \/ Learn

SpecChain == InitChain /\ [][NextChain]_vars

\* The transition pushed last
Newest(buf) == buf[Len(buf)]

\* C34: the transition pushed on the first step of an episode has as its
\* state the encoding of the environment as constructed, whatever the buffer
\* held before; the transition pushed on any later step has as its state the
\* nextState of the transition pushed on the step before, which is the
\* newest entry of the buffer at that moment; and its nextState is the
\* encoding of the environment after the step.
C34_TransitionsChain ==
  [][ (pushes' = pushes + 1) =>
        /\ Len(replayBuffer') >= 1
        /\ Newest(replayBuffer').nextState = GetFeatureVector(GetState(game'), game')
        /\ IF step = 0
           THEN /\ calls = 0
                /\ Newest(replayBuffer').state = GetFeatureVector(GetState(game), game)
           ELSE /\ Len(replayBuffer) >= 1
                /\ Newest(replayBuffer').state = Newest(replayBuffer).nextState ]_vars

\* Second step of an episode that followed a restore: the buffer holds the
\* transitions of the two steps; the first does not start where the restored
\* transition ended, the second starts where the first ended, and the player
\* has moved on both.
C34_Witness ==
  /\ trainingState.present
  /\ pushes = 2
  /\ Len(replayBuffer) = 2
  /\ replayBuffer[1].state # EarlierTransition.nextState
  /\ replayBuffer[2].state = replayBuffer[1].nextState
  /\ replayBuffer[2].nextState # replayBuffer[2].state
  /\ replayBuffer[1].nextState # replayBuffer[1].state
  /\ replayBuffer[2].nextState = currentFeature

=============================================================================
